---- MODULE Spec2Model ----
(***************************************************************************)
(* Process supervision layer of the Tonnet browser: the ProxyManager       *)
(* and the StorageManager as state machines over the Node.js event loop.   *)
(* One action is one macrotask: a public call, a child-process             *)
(* event, a timer expiry or the completion of an HTTP request, together    *)
(* with every promise continuation (microtask) it releases.                *)
(***************************************************************************)
EXTENDS Integers, Sequences, FiniteSets, TLC

\* ---------------------------------------------------------------- bounds
MaxSpawn == 2        \* children spawned per manager in one behaviour
MaxInFlight == 2     \* sync probes outstanding at once
MaxLists == 1        \* listBags requests of poll ticks outstanding at once
AttemptBound == 2    \* waitForReady(maxAttempts) budget used under Spec
ReadySpawns == 1     \* children spawned under SpecReady (default budget)
MaxConnects == 2     \* PROXY_CONNECT requests in one behaviour of SpecConnect
ConnectProbes == 1   \* sync probes outstanding at once under SpecConnect
MaxBags == 2         \* bags in one answer of the daemon's list
MaxBagOps == 1       \* bag operations outstanding at once
MaxRate == 2         \* largest maxCalls of a RateLimiter
MaxWindow == 2       \* largest windowMs of a RateLimiter
MaxClock == 5
MaxPathLen == 3         \* segments of a download path        \* the clock stops here

\* ------------------------------------------------------ program constants
Null == 0                   \* process / client / timer handle: null
DefaultMaxAttempts == 30    \* waitForReady(maxAttempts = 30)
NotSyncedStatus == 502      \* res.statusCode !== 502

Children == 1..MaxSpawn

AlreadyRunningProxy == "Proxy already running"
ProxyTimeoutError == "Proxy failed to start within timeout"
AlreadyRunningStorage == "Storage daemon already running"
StorageNotReadyError == "Storage daemon API did not become ready"
ReadyMarker == "Proxy listening"

\* stdout chunks a proxy child may write
StdoutData == {ReadyMarker, "DHT bootstrap"}
\* outcome of a sync probe: a response status code, or 0 for a request that
\* ended in 'error' or 'timeout'
ProbeOutcomes == {200, NotSyncedStatus, 0}
ExitCodes == {0, 1}

VARIABLES
  mgr,            \* which singleton the behaviour drives: "proxy" | "storage"
  op,             \* the macrotask that ran last
  ret,            \* what it returned / how the promise it settled ended
  emitted,        \* the events the manager emitted during it, in order
  \* ProxyManager fields
  pProcess,       \* this.process: Null or the child held
  pStatus,        \* this.status
  pSyncInterval,  \* this.syncCheckInterval: Null or the interval's id
  \* runtime state around the ProxyManager
  pTimers,        \* intervals created by startSyncCheck and not cleared
  pChild,         \* child -> "none" | "running" | "failed" (never spawned)
                  \*          | "exited" | "killed"
  pListen,        \* children whose stdout/stderr/process listeners are attached
  pWait,          \* child -> waitForReady promise of the start() that spawned it
  pProbes,        \* sync probes issued and not yet completed
  \* history
  pDown,          \* "none" | "stop" | "exit": how the last held child was lost
  pConnects,      \* 'status' connected notifications since the last spawn (capped)
  pLateProbe,     \* a probe was issued after a 'connected' notification
  \* StorageManager fields
  sProcess,       \* this.process
  sClient,        \* this.client: Null or the client created by start() k
  sIsRunning,     \* this.isRunning
  sPollInterval,  \* this.pollInterval: Null or the interval's id
  \* runtime state around the StorageManager
  sTimers,        \* intervals created by startPolling and not cleared
  sChild,         \* as pChild
  sListen,        \* as pListen
  sWait,          \* child -> the waitForReady loop of the start() that spawned
                  \* it: [phase, i, max, pings]
  sLists,         \* listBags requests of poll ticks issued and not completed
  \* history
  sDown,          \* "none" | "stop" | "exit": how the last held child was lost
  sQuiet          \* -1, or the child that the last effective stop() ended, until
                  \* a start() called after that stop() resolves

pFields == <<pProcess, pStatus, pSyncInterval>>
pRuntime == <<pTimers, pChild, pListen, pWait, pProbes>>
pHistory == <<pDown, pConnects, pLateProbe>>
pVars == <<pFields, pRuntime, pHistory>>
sFields == <<sProcess, sClient, sIsRunning, sPollInterval>>
sRuntime == <<sTimers, sChild, sListen, sWait, sLists>>
sHistory == <<sDown, sQuiet>>
sVars == <<sFields, sRuntime, sHistory>>

\* the connect paths of the main process (ready-to-show auto-connect and the
\* PROXY_CONNECT / PROXY_DISCONNECT handlers) over the two singletons
VARIABLES
  cCall,          \* request -> where its handler stands
  cProcess,       \* proxyManager.process: Null or the request that spawned it
  cStatus,        \* proxyManager.status
  cSyncInterval,  \* proxyManager.syncCheckInterval: Null or its id
  cProbes,        \* sync probes issued and not yet completed
  cWait,          \* requests whose proxyManager.start() awaits the marker
  cChild,         \* proxy children alive with their listeners attached
  cStorProcess,   \* storageManager.process
  cStorRunning,   \* storageManager.isRunning
  cStorWait,      \* requests whose storageManager.start() awaits the API
  cStorChild,     \* storage children alive with their listeners attached
  cInvokedAt,     \* proxyManager.status when storageManager.start() was last
                  \* invoked by a connect path ("none": never)
  cCut            \* the last PROXY_DISCONNECT was handled while a connect path
                  \* was in progress, and no connect path has begun since

cProxy == <<cProcess, cStatus, cSyncInterval, cProbes, cWait, cChild>>
cStorage == <<cStorProcess, cStorRunning, cStorWait, cStorChild>>
cVars == <<cCall, cProxy, cStorage, cInvokedAt, cCut>>

\* the port and verbosity settings and the managers' view of them
VARIABLES
  netPort,        \* network.proxyPort / network.storagePort as configured
  advVerbosity,   \* advanced.storageVerbosity as configured
  thisPort,       \* the manager's this.port
  safePort,       \* the sanitized port of the last spawn
  spawnArgs,      \* port and verbosity in the last child's argument list
  targetPort,     \* the port the last sync probe / the HTTP client addresses
  portPhase       \* "stopped" | "waiting" (start() pending) | "running"

ptVars == <<netPort, advVerbosity, thisPort, safePort, spawnArgs, targetPort,
            portPhase>>

\* the bag operations of the storage manager
VARIABLES
  bagReqs,        \* bag operations whose HTTP request is outstanding
  bagAnswer,      \* the list the daemon gave the last listBags()
  bagResult       \* what that listBags() returned

bVars == <<bagReqs, bagAnswer, bagResult>>

\* a RateLimiter and the clock
VARIABLES
  rlMaxCalls,     \* this.maxCalls
  rlWindowMs,     \* this.windowMs
  rlCalls,        \* this.calls: the timestamps kept
  rlNow,          \* Date.now()
  rlBurst,        \* check() calls since the limiter was new or reset, while
                  \* the clock has not moved since the first of them (-1: it
                  \* has, or the count is past maxCalls + 1)
  rlLast,         \* the clock at the last check() (-1: none)
  rlAccepted      \* clock -> the check() calls accepted at that time since
                  \* the last reset() (counted up to maxCalls + 1)

rlVars == <<rlMaxCalls, rlWindowMs, rlCalls, rlNow, rlBurst, rlLast, rlAccepted>>

\* the settings store
VARIABLES
  settingsCache,  \* the module's settingsCache
  settingsFile,   \* app-settings.json on disk
  settingsCall,   \* the arguments of the last call: for setSetting the
                  \* category and values, for saveSettings "*" and the object
  settingsRead,   \* what the loadSettings() of the last call found on disk
                  \* (NoRead: it returned the cache, or was not called)
  settingsTmp,    \* app-settings.json.tmp on disk
  settingsWrite   \* how the last saveSettings() of the last call fared with
                  \* the disk ("none": the call did not save)

stVars == <<settingsCache, settingsFile, settingsCall, settingsRead,
            settingsTmp, settingsWrite>>

\* everything outside the two managers' own state machines
\* the validators of the control surface
VARIABLES
  valFn,          \* the validator called
  valArg,         \* its argument
  valOut          \* what the call came to: a returned value or an exception
                  \* (NotCalled: the call is still to be made)

valVars == <<valFn, valArg, valOut>>

\* the storage handlers of the control surface
VARIABLES
  hChannel,       \* the channel of the last invoke ("none": none yet)
  hBagId,         \* the bag id it came with
  hCheck,         \* what storageLimiter.check() returned in its handler
                  \* ("none": the handler does not call it)
  hReached,       \* the function of the storage layer its handler called
                  \* with the bag id ("none": it returned before)
  hResult         \* the error of the handler's own reply ("": none)

hVars == <<hChannel, hBagId, hCheck, hReached, hResult>>

\* a network-settings change
VARIABLES
  ncLive,         \* getSetting('network'): the live network settings
  ncThis,         \* this.port, this.anonymousMode, this.circuitRotation and
                  \* this.rotateInterval of the proxy manager
  ncStarted,      \* the live network settings at the last start() that spawned
  ncProcess,      \* a process is held
  ncSettling      \* restart() calls in their settle delay

ncVars == <<ncLive, ncThis, ncStarted, ncProcess, ncSettling>>

\* field type validation
VARIABLES
  fvDoc,          \* the parsed document isValidSettingsObject is called with
  fvOut           \* what it returned ("none": the call is still to be made)

fvVars == <<fvDoc, fvOut>>

\* the storage HTTP client
VARIABLES
  hcCall,         \* the method of StorageHTTPClient that is called
  hcResponse,     \* what the daemon answers to a request
  hcRequests,     \* the HTTP requests the call has issued
  hcOut           \* what the call came to: a value or an exception

hcVars == <<hcCall, hcResponse, hcRequests, hcOut>>

\* the download path handlers
VARIABLES
  dpChannel,      \* the channel of the last invoke ("none": none yet)
  dpPersisted,    \* storage.downloadPath of the settings
  dpStoragePath,  \* storagePath of the storage manager
  dpReply         \* success of the handler's reply

dpVars == <<dpChannel, dpPersisted, dpStoragePath, dpReply>>

\* the circuit relays of the proxy manager
VARIABLES
  crProcess,      \* this.process: Null or the child held
  crChild,        \* child -> "none" | "running" | "exited"
  crListen,       \* children whose stdout and exit listeners are attached
  crAnonymous,    \* this.anonymousMode
  crRelays        \* this.circuitRelays: slot -> relay name ("": not set)

crVars == <<crProcess, crChild, crListen, crAnonymous, crRelays>>

xVars == <<cVars, ptVars, bVars, rlVars, stVars, valVars, hVars, ncVars, fvVars, hcVars, dpVars, crVars>>
vars == <<mgr, op, ret, emitted, pVars, sVars, xVars>>

\* ---------------------------------------------------------------- helpers
NoWait == [phase |-> "none", i |-> 0, max |-> 0, pings |-> 0]
Spawned(child) == Cardinality({c \in Children : child[c] # "none"})
StatusEvent(s) == [name |-> "status", arg |-> s]
ExitEvent(code) == [name |-> "exit", code |-> code]
Event(n) == [name |-> n]
\* the macrotask belongs to one singleton and leaves the other alone
DrivesProxy == mgr = "proxy" /\ mgr' = mgr /\ UNCHANGED <<sVars, xVars>>
DrivesStorage == mgr = "storage" /\ mgr' = mgr /\ UNCHANGED <<pVars, xVars>>

\* what spawn() hands back: a running child, or a handle whose spawn failed
\* (ENOENT, EACCES): Node then emits 'error', and no 'exit', on the handle from
\* process.nextTick, that is before any other event is handled
SpawnOutcomes == {"running", "failed"}
\* the 'error' listener of the child: the manager emits 'error'
OnSpawnError(outcome) == IF outcome = "failed" THEN <<Event("error")>> ELSE <<>>

\* clearInterval(this.syncCheckInterval): the interval the field names stops
ClearInterval(timers, handle) == timers \ {handle}

InitProxy ==
  /\ pProcess = Null
  /\ pStatus = "stopped"
  /\ pSyncInterval = Null
  /\ pTimers = {}
  /\ pChild = [c \in Children |-> "none"]
  /\ pListen = {}
  /\ pWait = [c \in Children |-> "none"]
  /\ pProbes = 0
  /\ pDown = "none"
  /\ pConnects = 0
  /\ pLateProbe = FALSE

\* ------------------------------------------------------------ ProxyManager

\* setStatus(status): the field and the 'status' notification
SetStatus(s) ==
  /\ pStatus' = s
  /\ emitted' = <<StatusEvent(s)>>

\* start() with a handle held: throws before touching anything
ProxyStartRejected ==
  /\ ret' = AlreadyRunningProxy
  /\ emitted' = <<>>
  /\ UNCHANGED pVars

\* start() with no handle held: loadSettings, setStatus('starting'), spawn,
\* attach the listeners, enter waitForReady; the call is then suspended (and
\* the 'error' listener runs if the spawn failed)
ProxyStartSpawn(cap) ==
  /\ Spawned(pChild) < cap
  /\ LET c == Spawned(pChild) + 1 IN
     \E outcome \in SpawnOutcomes :
       /\ pStatus' = "starting"
       /\ emitted' = <<StatusEvent("starting")>> \o OnSpawnError(outcome)
       /\ pProcess' = c
       /\ pChild' = [pChild EXCEPT ![c] = outcome]
       /\ pListen' = pListen \cup {c}
       /\ pWait' = [pWait EXCEPT ![c] = "waiting"]
       /\ ret' = "pending"
       /\ pDown' = "none"
       /\ pConnects' = 0
       /\ pLateProbe' = FALSE
       /\ UNCHANGED <<pSyncInterval, pTimers, pProbes>>

ProxyStart_NoGuard(cap) ==
  /\ DrivesProxy
  /\ op' = "start"
  /\ ProxyStartSpawn(cap)

ProxyStart(cap) ==
  /\ DrivesProxy
  /\ op' = "start"
  /\ IF pProcess # Null THEN ProxyStartRejected ELSE ProxyStartSpawn(cap)

\* startSyncCheck(): a new interval whose handle overwrites the field
StartSyncCheck(c) ==
  /\ pSyncInterval' = c
  /\ pTimers' = pTimers \cup {c}

\* a chunk on the stdout of child c: the 'data' listener of start() runs, then
\* checkOutput of waitForReady; a marker seen while the promise is pending
\* resolves start(), which goes on with setStatus('syncing'), startSyncCheck()
ProxyStdout(c, data) ==
  /\ DrivesProxy
  /\ c \in pListen
  /\ pChild[c] \in {"running", "exited"}
  /\ op' = "stdout"
  /\ IF data = ReadyMarker /\ pWait[c] = "waiting"
     THEN /\ pWait' = [pWait EXCEPT ![c] = "ready"]
          /\ pStatus' = "syncing"
          /\ emitted' = <<Event("log"), StatusEvent("syncing")>>
          /\ StartSyncCheck(c)
          /\ ret' = "resolved"
     ELSE /\ emitted' = <<Event("log")>>
          /\ ret' = "none"
          /\ UNCHANGED <<pWait, pStatus, pSyncInterval, pTimers>>
  /\ UNCHANGED <<pProcess, pChild, pListen, pProbes, pHistory>>

\* the readiness deadline of waitForReady expires: start() rejects
ProxyReadyTimeout_DropHandle(c) ==
  /\ DrivesProxy
  /\ pWait[c] = "waiting"
  /\ op' = "timeout"
  /\ pWait' = [pWait EXCEPT ![c] = "timeout"]
  /\ ret' = ProxyTimeoutError
  /\ emitted' = <<>>
  /\ pProcess' = Null
  /\ UNCHANGED <<pStatus, pSyncInterval, pTimers, pChild, pListen, pProbes, pHistory>>

ProxyReadyTimeout(c) ==
  /\ DrivesProxy
  /\ pWait[c] = "waiting"
  /\ op' = "timeout"
  /\ pWait' = [pWait EXCEPT ![c] = "timeout"]
  /\ ret' = ProxyTimeoutError
  /\ emitted' = <<>>
  /\ UNCHANGED <<pFields, pTimers, pChild, pListen, pProbes, pHistory>>

\* a tick of a sync-check interval: checkSync() issues the probe and the
\* callback is suspended on it
ProxyTick(t) ==
  /\ DrivesProxy
  /\ t \in pTimers
  /\ pProbes < MaxInFlight
  /\ op' = "tick"
  /\ pProbes' = pProbes + 1
  /\ pLateProbe' = (pLateProbe \/ pConnects > 0)
  /\ ret' = "none"
  /\ emitted' = <<>>
  /\ UNCHANGED <<pFields, pTimers, pChild, pListen, pWait, pDown, pConnects>>

\* checkSync() that takes a failed request for a synced proxy
CheckSync_ErrorsSynced(outcome) == outcome # NotSyncedStatus

\* checkSync(): true for a response whose status is not 502
CheckSync(outcome) == outcome # 0 /\ outcome # NotSyncedStatus

\* a probe completes and the interval callback resumes
ProxyProbeDone(outcome) ==
  /\ DrivesProxy
  /\ pProbes > 0
  /\ op' = "probe"
  /\ pProbes' = pProbes - 1
  /\ ret' = "none"
  /\ IF CheckSync(outcome)
     THEN /\ SetStatus("connected")
          /\ pConnects' = IF pConnects < 2 THEN pConnects + 1 ELSE 2
          /\ IF pSyncInterval # Null
             THEN /\ pTimers' = ClearInterval(pTimers, pSyncInterval)
                  /\ pSyncInterval' = Null
             ELSE UNCHANGED <<pTimers, pSyncInterval>>
     ELSE /\ emitted' = <<>>
          /\ UNCHANGED <<pStatus, pConnects, pTimers, pSyncInterval>>
  /\ UNCHANGED <<pProcess, pChild, pListen, pWait, pDown, pLateProbe>>

\* stop()
ProxyStop_KeepTimer ==
  /\ DrivesProxy
  /\ op' = "stop"
  /\ ret' = "ok"
  /\ IF pProcess # Null
     THEN /\ pListen' = pListen \ {pProcess}
          /\ pChild' = [pChild EXCEPT ![pProcess] = "killed"]
          /\ pProcess' = Null
          /\ pStatus' = "stopped"
          /\ emitted' = <<StatusEvent("stopped"), Event("disconnected")>>
          /\ pDown' = "stop"
     ELSE /\ emitted' = <<>>
          /\ UNCHANGED <<pListen, pChild, pProcess, pStatus, pDown>>
  /\ UNCHANGED <<pSyncInterval, pTimers, pWait, pProbes, pConnects, pLateProbe>>

ProxyStop ==
  /\ DrivesProxy
  /\ op' = "stop"
  /\ ret' = "ok"
  /\ IF pSyncInterval # Null
     THEN /\ pTimers' = ClearInterval(pTimers, pSyncInterval)
          /\ pSyncInterval' = Null
     ELSE UNCHANGED <<pTimers, pSyncInterval>>
  /\ IF pProcess # Null
     THEN /\ pListen' = pListen \ {pProcess}
          /\ pChild' = [pChild EXCEPT ![pProcess] = "killed"]
          /\ pProcess' = Null
          /\ pStatus' = "stopped"
          /\ emitted' = <<StatusEvent("stopped"), Event("disconnected")>>
          /\ pDown' = "stop"
     ELSE /\ emitted' = <<>>
          /\ UNCHANGED <<pListen, pChild, pProcess, pStatus, pDown>>
  /\ UNCHANGED <<pWait, pProbes, pConnects, pLateProbe>>

\* the 'exit' listener of child c
ProxyExit(c, code) ==
  /\ DrivesProxy
  /\ c \in pListen
  /\ pChild[c] = "running"
  /\ op' = "exit"
  /\ ret' = "none"
  /\ pChild' = [pChild EXCEPT ![c] = "exited"]
  /\ pStatus' = "stopped"
  /\ pProcess' = Null
  /\ IF pSyncInterval # Null
     THEN /\ pTimers' = ClearInterval(pTimers, pSyncInterval)
          /\ pSyncInterval' = Null
     ELSE UNCHANGED <<pTimers, pSyncInterval>>
  /\ emitted' = <<StatusEvent("stopped"), ExitEvent(code)>>
  /\ pDown' = "exit"
  /\ UNCHANGED <<pListen, pWait, pProbes, pConnects, pLateProbe>>

ProxyNext(cap) ==
  \/ ProxyStart(cap)
  \/ ProxyStop
  \/ \E c \in Children, data \in StdoutData : ProxyStdout(c, data)
  \/ \E c \in Children : ProxyReadyTimeout(c)
  \/ \E t \in Children : ProxyTick(t)
  \/ \E outcome \in ProbeOutcomes : ProxyProbeDone(outcome)
  \/ \E c \in Children, code \in ExitCodes : ProxyExit(c, code)

\* ---------------------------------------------------------- StorageManager

InitStorage ==
  /\ sProcess = Null
  /\ sClient = Null
  /\ sIsRunning = FALSE
  /\ sPollInterval = Null
  /\ sTimers = {}
  /\ sChild = [c \in Children |-> "none"]
  /\ sListen = {}
  /\ sWait = [c \in Children |-> NoWait]
  /\ sLists = 0
  /\ sDown = "none"
  /\ sQuiet = -1

\* start() with a handle held: throws before touching anything
StorageStartRejected ==
  /\ ret' = AlreadyRunningStorage
  /\ emitted' = <<>>
  /\ UNCHANGED sVars

\* start() with no handle held: loadSettings, spawn, attach the listeners,
\* create the HTTP client, enter waitForReady(budget), whose first iteration
\* finds the client set and issues the first ping
StorageStartSpawn(cap, budget) ==
  /\ Spawned(sChild) < cap
  /\ LET c == Spawned(sChild) + 1 IN
     \E outcome \in SpawnOutcomes :
       /\ sProcess' = c
       /\ sChild' = [sChild EXCEPT ![c] = outcome]
       /\ sListen' = sListen \cup {c}
       /\ sClient' = c
       /\ sWait' = [sWait EXCEPT ![c] =
                      [phase |-> "pinging", i |-> 0, max |-> budget, pings |-> 1]]
       /\ ret' = "pending"
       /\ emitted' = OnSpawnError(outcome)
       /\ sDown' = "none"
       /\ UNCHANGED <<sIsRunning, sPollInterval, sTimers, sLists, sQuiet>>

StorageStart(cap, budget) ==
  /\ DrivesStorage
  /\ op' = "start"
  /\ IF sProcess # Null
     THEN StorageStartRejected
     ELSE StorageStartSpawn(cap, budget)

\* startPolling(): a new interval whose handle overwrites the field
StartPolling(k) ==
  /\ sPollInterval' = k
  /\ sTimers' = sTimers \cup {k}

\* stopPolling()
StopPolling ==
  IF sPollInterval # Null
  THEN /\ sTimers' = ClearInterval(sTimers, sPollInterval)
       /\ sPollInterval' = Null
  ELSE UNCHANGED <<sTimers, sPollInterval>>

\* the ping of waitForReady loop k completes; on success waitForReady
\* returns and start() goes on: isRunning, 'started', startPolling();
\* otherwise the loop sleeps 500 ms
StoragePingDone(k, ok) ==
  /\ DrivesStorage
  /\ sWait[k].phase = "pinging"
  /\ op' = "ping"
  /\ IF ok
     THEN /\ sWait' = [sWait EXCEPT ![k].phase = "ready"]
          /\ sIsRunning' = TRUE
          /\ emitted' = <<Event("started")>>
          /\ StartPolling(k)
          /\ ret' = "resolved"
          /\ sQuiet' = IF k > sQuiet THEN -1 ELSE sQuiet
     ELSE /\ sWait' = [sWait EXCEPT ![k].phase = "sleeping"]
          /\ emitted' = <<>>
          /\ ret' = "none"
          /\ UNCHANGED <<sIsRunning, sPollInterval, sTimers, sQuiet>>
  /\ UNCHANGED <<sProcess, sClient, sChild, sListen, sLists, sDown>>

\* the loop condition of waitForReady: i < maxAttempts
MoreAttempts_OffByOne(i, max) == i <= max
MoreAttempts(i, max) == i < max

\* the 500 ms sleep of loop k ends: i++, then either the budget is spent or
\* the client is gone (break) and start() rejects, or the next ping goes out
StorageSleepDone(k) ==
  /\ DrivesStorage
  /\ sWait[k].phase = "sleeping"
  /\ op' = "sleep"
  /\ emitted' = <<>>
  /\ LET i == sWait[k].i + 1 IN
     IF MoreAttempts(i, sWait[k].max) /\ sClient # Null
     THEN /\ sWait' = [sWait EXCEPT ![k].phase = "pinging", ![k].i = i,
                                    ![k].pings = sWait[k].pings + 1]
          /\ ret' = "none"
     ELSE /\ sWait' = [sWait EXCEPT ![k].phase = "notready", ![k].i = i]
          /\ ret' = StorageNotReadyError
  /\ UNCHANGED <<sFields, sTimers, sChild, sListen, sLists, sHistory>>

\* a tick of a poll interval: returns at once without a client or when not
\* running, otherwise issues listBags and is suspended on it
StorageTick(t) ==
  /\ DrivesStorage
  /\ t \in sTimers
  /\ op' = "tick"
  /\ ret' = "none"
  /\ emitted' = <<>>
  /\ IF sClient = Null \/ ~sIsRunning
     THEN UNCHANGED sLists
     ELSE /\ sLists < MaxLists
          /\ sLists' = sLists + 1
  /\ UNCHANGED <<sFields, sTimers, sChild, sListen, sWait, sHistory>>

\* the listBags request of a poll tick completes: the mapped list is emitted,
\* or the error is logged
StorageListDone(ok) ==
  /\ DrivesStorage
  /\ sLists > 0
  /\ op' = "list"
  /\ ret' = "none"
  /\ sLists' = sLists - 1
  /\ emitted' = IF ok THEN <<Event("bags-updated")>> ELSE <<>>
  /\ UNCHANGED <<sFields, sTimers, sChild, sListen, sWait, sHistory>>

\* stop()
StorageStop ==
  /\ DrivesStorage
  /\ op' = "stop"
  /\ ret' = "ok"
  /\ StopPolling
  /\ IF sProcess # Null
     THEN /\ sListen' = sListen \ {sProcess}
          /\ sChild' = [sChild EXCEPT ![sProcess] = "killed"]
          /\ sProcess' = Null
          /\ sClient' = Null
          /\ sIsRunning' = FALSE
          /\ emitted' = <<Event("stopped")>>
          /\ sDown' = "stop"
          /\ sQuiet' = sProcess
     ELSE /\ emitted' = <<>>
          /\ UNCHANGED <<sListen, sChild, sProcess, sClient, sIsRunning, sHistory>>
  /\ UNCHANGED <<sWait, sLists>>

\* the 'exit' listener of child c
StorageExit(c, code) ==
  /\ DrivesStorage
  /\ c \in sListen
  /\ sChild[c] = "running"
  /\ op' = "exit"
  /\ ret' = "none"
  /\ sChild' = [sChild EXCEPT ![c] = "exited"]
  /\ sIsRunning' = FALSE
  /\ sProcess' = Null
  /\ sClient' = Null
  /\ StopPolling
  /\ emitted' = <<ExitEvent(code)>>
  /\ sDown' = "exit"
  /\ UNCHANGED <<sListen, sWait, sLists, sQuiet>>

StorageNext(cap, budget) ==
  \/ StorageStart(cap, budget)
  \/ StorageStop
  \/ \E k \in Children, ok \in BOOLEAN : StoragePingDone(k, ok)
  \/ \E k \in Children : StorageSleepDone(k)
  \/ \E t \in Children : StorageTick(t)
  \/ \E ok \in BOOLEAN : StorageListDone(ok)
  \/ \E c \in Children, code \in ExitCodes : StorageExit(c, code)

\* ------------------------------------------------------------ connect paths
\* Request 1 is the window's ready-to-show handler, the others are
\* PROXY_CONNECT requests of the renderer.  A child is named after the request
\* whose start() spawned it.  Of the two managers the paths observe the
\* process handle, the status, the pending start() promises and the sync
\* check; the managers' events are those of ProxyManager and StorageManager.

AutoCall == 1
Calls == 1..(MaxConnects + 1)
IpcCalls == Calls \ {AutoCall}

InitConnect ==
  /\ cCall = [h \in Calls |-> "idle"]
  /\ cProcess = Null
  /\ cStatus = "stopped"
  /\ cSyncInterval = Null
  /\ cProbes = 0
  /\ cWait = {}
  /\ cChild = {}
  /\ cStorProcess = Null
  /\ cStorRunning = FALSE
  /\ cStorWait = {}
  /\ cStorChild = {}
  /\ cInvokedAt = "none"
  /\ cCut = FALSE

\* the macrotask belongs to the connect paths
DrivesConnect ==
  /\ mgr = "connect"
  /\ UNCHANGED <<mgr, emitted, pVars, sVars, ptVars, bVars, rlVars, stVars, valVars, hVars, ncVars, fvVars, hcVars, dpVars, crVars>>

\* the handler of request h is at `at` and goes to `to`
Goes(h, to) == cCall' = [cCall EXCEPT ![h] = to]

\* where a handler ends when a call it awaits throws: the catch of both paths
Caught == "failed"

\* a handler that has begun and has not yet returned
InProgress(at) == at \notin {"idle", "done", Caught}

\* proxyManager.start() called by request h: throws with a handle held,
\* otherwise setStatus('starting'), spawn, waitForReady (suspended)
ConnectProxyStart(h) ==
  /\ cCut' = FALSE
  /\ IF cProcess # Null
     THEN /\ Goes(h, Caught)
          /\ ret' = AlreadyRunningProxy
          /\ UNCHANGED <<cProxy, cStorage, cInvokedAt>>
     ELSE /\ \E outcome \in SpawnOutcomes :
               cChild' = IF outcome = "running" THEN cChild \cup {h} ELSE cChild
          /\ cProcess' = h
          /\ cStatus' = "starting"
          /\ cWait' = cWait \cup {h}
          /\ Goes(h, "proxy.start")
          /\ ret' = "pending"
          /\ UNCHANGED <<cSyncInterval, cProbes, cStorage, cInvokedAt>>

\* 'ready-to-show': nothing more without autoConnect, otherwise
\* proxyManager.start()
ReadyToShow(autoConnect) ==
  /\ DrivesConnect
  /\ cCall[AutoCall] = "idle"
  /\ op' = "ready-to-show"
  /\ IF autoConnect
     THEN ConnectProxyStart(AutoCall)
     ELSE /\ Goes(AutoCall, "done")
          /\ ret' = "none"
          /\ UNCHANGED <<cProxy, cStorage, cInvokedAt, cCut>>

\* a PROXY_CONNECT request arrives: sendProgress(0), proxyManager.start()
ProxyConnect(h) ==
  /\ DrivesConnect
  /\ h \in IpcCalls
  /\ cCall[h] = "idle"
  /\ op' = "PROXY_CONNECT"
  /\ ConnectProxyStart(h)

\* storageManager.start() called by request h while the proxy status is
\* `status`: throws with a handle held, otherwise spawn, waitForReady.  The
\* ready-to-show handler has one catch around everything; PROXY_CONNECT
\* catches a storage failure on its own, logs it and goes on to return
\* success
StorageFailed(h) == IF h = AutoCall THEN Caught ELSE "done"

InvokeStorageStart(h, status) ==
  /\ cInvokedAt' = status
  /\ UNCHANGED cCut
  /\ IF cStorProcess # Null
     THEN /\ Goes(h, StorageFailed(h))
          /\ UNCHANGED cStorage
     ELSE /\ \E outcome \in SpawnOutcomes :
               cStorChild' = IF outcome = "running" THEN cStorChild \cup {h}
                             ELSE cStorChild
          /\ cStorProcess' = h
          /\ cStorWait' = cStorWait \cup {h}
          /\ Goes(h, "storage.start")
          /\ UNCHANGED cStorRunning

\* the readiness marker on the stdout of proxy child h: waitForReady resolves,
\* start() goes on with setStatus('syncing') and startSyncCheck() and
\* resolves, and the handler that awaited it continues in the same macrotask:
\* ready-to-show with initTabManager and storageManager.start(), PROXY_CONNECT
\* with sendProgress(1) and its first delay
ConnectProxyReady(h) ==
  /\ DrivesConnect
  /\ h \in cWait
  /\ h \in cChild
  /\ op' = "stdout"
  /\ ret' = "resolved"
  /\ cWait' = cWait \ {h}
  /\ cStatus' = "syncing"
  /\ cSyncInterval' = h
  /\ UNCHANGED <<cProcess, cProbes, cChild>>
  /\ IF h = AutoCall
     THEN InvokeStorageStart(h, cStatus')
     ELSE /\ Goes(h, "delay 300")
          /\ UNCHANGED <<cStorage, cInvokedAt, cCut>>

\* the readiness deadline of proxy start h expires: start() rejects and the
\* handler's catch runs
ConnectProxyTimeout(h) ==
  /\ DrivesConnect
  /\ h \in cWait
  /\ op' = "timeout"
  /\ ret' = ProxyTimeoutError
  /\ cWait' = cWait \ {h}
  /\ Goes(h, Caught)
  /\ UNCHANGED <<cProcess, cStatus, cSyncInterval, cProbes, cChild, cStorage,
                 cInvokedAt, cCut>>

\* one of the three visual-feedback delays of PROXY_CONNECT ends; after the
\* last one initTabManager and storageManager.start()
ConnectDelayDone(h) ==
  /\ DrivesConnect
  /\ cCall[h] \in {"delay 300", "delay 400", "delay 400 again"}
  /\ op' = "delay"
  /\ ret' = "none"
  /\ UNCHANGED cProxy
  /\ CASE cCall[h] = "delay 300" ->
            Goes(h, "delay 400") /\ UNCHANGED <<cStorage, cInvokedAt, cCut>>
       [] cCall[h] = "delay 400" ->
            Goes(h, "delay 400 again") /\ UNCHANGED <<cStorage, cInvokedAt, cCut>>
       [] OTHER -> InvokeStorageStart(h, cStatus)

\* a ping of storage start h succeeds: waitForReady returns, isRunning is
\* set, start() resolves and the handler finishes (the auto-connect sends
\* 'proxy:status', PROXY_CONNECT returns success)
ConnectStorageReady(h) ==
  /\ DrivesConnect
  /\ h \in cStorWait
  /\ op' = "ping"
  /\ ret' = "resolved"
  /\ cStorWait' = cStorWait \ {h}
  /\ cStorRunning' = TRUE
  /\ Goes(h, "done")
  /\ UNCHANGED <<cProxy, cStorProcess, cStorChild, cInvokedAt, cCut>>

\* waitForReady of storage start h gives up (budget spent, or the client is
\* gone): start() rejects
ConnectStorageNotReady(h) ==
  /\ DrivesConnect
  /\ h \in cStorWait
  /\ op' = "sleep"
  /\ ret' = StorageNotReadyError
  /\ cStorWait' = cStorWait \ {h}
  /\ Goes(h, StorageFailed(h))
  /\ UNCHANGED <<cProxy, cStorProcess, cStorRunning, cStorChild, cInvokedAt, cCut>>

\* 'exit' of proxy child h
ConnectProxyExit(h) ==
  /\ DrivesConnect
  /\ h \in cChild
  /\ op' = "exit"
  /\ ret' = "none"
  /\ cChild' = cChild \ {h}
  /\ cStatus' = "stopped"
  /\ cProcess' = Null
  /\ cSyncInterval' = Null
  /\ UNCHANGED <<cCall, cProbes, cWait, cStorage, cInvokedAt, cCut>>

\* 'exit' of storage child h
ConnectStorageExit(h) ==
  /\ DrivesConnect
  /\ h \in cStorChild
  /\ op' = "exit"
  /\ ret' = "none"
  /\ cStorChild' = cStorChild \ {h}
  /\ cStorRunning' = FALSE
  /\ cStorProcess' = Null
  /\ UNCHANGED <<cCall, cProxy, cStorWait, cInvokedAt, cCut>>

\* a tick of the sync check: a probe goes out
ConnectSyncTick ==
  /\ DrivesConnect
  /\ cSyncInterval # Null
  /\ cProbes < ConnectProbes
  /\ op' = "tick"
  /\ ret' = "none"
  /\ cProbes' = cProbes + 1
  /\ UNCHANGED <<cCall, cProcess, cStatus, cSyncInterval, cWait, cChild,
                 cStorage, cInvokedAt, cCut>>

\* a probe completes; a synced answer sets 'connected' and ends the check
ConnectProbeDone(outcome) ==
  /\ DrivesConnect
  /\ cProbes > 0
  /\ op' = "probe"
  /\ ret' = "none"
  /\ cProbes' = cProbes - 1
  /\ IF CheckSync(outcome)
     THEN cStatus' = "connected" /\ cSyncInterval' = Null
     ELSE UNCHANGED <<cStatus, cSyncInterval>>
  /\ UNCHANGED <<cCall, cProcess, cWait, cChild, cStorage, cInvokedAt, cCut>>

\* a PROXY_DISCONNECT request: storageManager.stop(), proxyManager.stop()
ProxyDisconnect ==
  /\ DrivesConnect
  /\ op' = "PROXY_DISCONNECT"
  /\ ret' = "ok"
  /\ IF cStorProcess # Null
     THEN /\ cStorChild' = cStorChild \ {cStorProcess}
          /\ cStorProcess' = Null
          /\ cStorRunning' = FALSE
     ELSE UNCHANGED <<cStorProcess, cStorRunning, cStorChild>>
  /\ cSyncInterval' = Null
  /\ IF cProcess # Null
     THEN /\ cChild' = cChild \ {cProcess}
          /\ cProcess' = Null
          /\ cStatus' = "stopped"
     ELSE UNCHANGED <<cProcess, cStatus, cChild>>
  /\ cCut' = (\E h \in Calls : InProgress(cCall[h]))
  /\ UNCHANGED <<cCall, cProbes, cWait, cStorWait, cInvokedAt>>

ConnectNext ==
  \/ \E autoConnect \in BOOLEAN : ReadyToShow(autoConnect)
  \/ \E h \in IpcCalls : ProxyConnect(h)
  \/ \E h \in Calls : ConnectProxyReady(h)
  \/ \E h \in Calls : ConnectProxyTimeout(h)
  \/ \E h \in Calls : ConnectDelayDone(h)
  \/ \E h \in Calls : ConnectStorageReady(h)
  \/ \E h \in Calls : ConnectStorageNotReady(h)
  \/ \E h \in Calls : ConnectProxyExit(h)
  \/ \E h \in Calls : ConnectStorageExit(h)
  \/ ConnectSyncTick
  \/ \E outcome \in ProbeOutcomes : ConnectProbeDone(outcome)
  \/ ProxyDisconnect

\* ------------------------------------------------------- ports and settings
\* The port and verbosity settings and what the managers make of them.  A
\* JavaScript value is a record: its typeof, whether it is NaN, and the number
\* it holds (for a string, the number its digits spell).

JsNum(n) == [type |-> "number", nan |-> FALSE, val |-> n]
JsNaN == [type |-> "number", nan |-> TRUE, val |-> 0]
JsString(n) == [type |-> "string", nan |-> FALSE, val |-> n]
JsNull == [type |-> "object", nan |-> FALSE, val |-> 0]
JsUndefined == [type |-> "undefined", nan |-> FALSE, val |-> 0]

\* typeof x, x < n and x > n on a number (a comparison with NaN is false)
TypeOf(x) == x.type
Less(x, n) == ~x.nan /\ x.val < n
Greater(x, n) == ~x.nan /\ x.val > n

MinPort == 1024
MaxPort == 65535
DefaultProxyPort == 8080
DefaultStoragePort == 5555
MinVerbosity == 0
MaxVerbosity == 5
DefaultVerbosity == 2

\* validatePort(port, defaultPort = 8080)
ValidatePort(port, defaultPort) ==
  IF TypeOf(port) # "number" \/ Less(port, MinPort) \/ Greater(port, MaxPort)
  THEN JsNum(defaultPort)
  ELSE port

\* validateVerbosity(verbosity, defaultVerbosity = 2)
ValidateVerbosity(verbosity, defaultVerbosity) ==
  IF TypeOf(verbosity) # "number" \/ Less(verbosity, MinVerbosity)
       \/ Greater(verbosity, MaxVerbosity)
  THEN JsNum(defaultVerbosity)
  ELSE verbosity

\* `${x}` and String(x) of a number: its decimal digits, or the text NaN
ToText(x) == IF x.nan THEN [text |-> "NaN"] ELSE [text |-> "digits", val |-> x.val]

\* the values a port or verbosity setting is given
PortValues ==
  {JsNum(n) : n \in {0, 80, MinPort - 1, MinPort, DefaultStoragePort,
                     DefaultProxyPort, MaxPort, MaxPort + 1}}
    \cup {JsNaN, JsString(DefaultProxyPort), JsNull, JsUndefined}
VerbosityValues ==
  {JsNum(n) : n \in {MinVerbosity - 1, MinVerbosity, DefaultVerbosity,
                     MaxVerbosity, MaxVerbosity + 1}}
    \cup {JsNaN, JsString(DefaultVerbosity), JsNull}

DefaultPort(m) == IF m = "proxy" THEN DefaultProxyPort ELSE DefaultStoragePort
NoArgs == [port |-> [text |-> "none"], verbosity |-> [text |-> "none"]]

InitPorts ==
  /\ netPort = JsNum(DefaultPort(IF mgr = "storage" THEN "storage" ELSE "proxy"))
  /\ advVerbosity = JsNum(DefaultVerbosity)
  /\ thisPort = JsNum(0)
  /\ safePort = JsUndefined
  /\ spawnArgs = NoArgs
  /\ targetPort = JsUndefined
  /\ portPhase = "stopped"

\* the macrotask belongs to the manager mgr names, seen for its ports
DrivesPorts ==
  /\ mgr \in {"proxy", "storage"}
  /\ emitted' = <<>>
  /\ UNCHANGED <<mgr, pVars, sVars, cVars, bVars, rlVars, stVars, valVars, hVars, ncVars, fvVars, hcVars, dpVars, crVars>>

\* start(): throws with a process held; otherwise loadSettings() copies the
\* configured port into this.port, the sanitized port replaces it and goes
\* into the argument list.  The proxy then enters waitForReady(), whose first
\* statement is loadSettings() again; the storage manager creates its HTTP
\* client on this.port and enters its own waitForReady(), which reads no
\* settings
PortsStart ==
  /\ DrivesPorts
  /\ op' = "start"
  /\ IF portPhase # "stopped"
     THEN /\ ret' = IF mgr = "proxy" THEN AlreadyRunningProxy
                    ELSE AlreadyRunningStorage
          /\ UNCHANGED ptVars
     ELSE LET safe == ValidatePort(netPort, DefaultPort(mgr)) IN
          /\ ret' = "pending"
          /\ safePort' = safe
          /\ portPhase' = "waiting"
          /\ UNCHANGED <<netPort, advVerbosity>>
          /\ IF mgr = "proxy"
             THEN /\ spawnArgs' = [port |-> ToText(safe),
                                   verbosity |-> [text |-> "none"]]
                  /\ thisPort' = netPort
                  /\ UNCHANGED targetPort
             ELSE /\ spawnArgs' =
                       [port |-> ToText(safe),
                        verbosity |-> ToText(ValidateVerbosity(advVerbosity,
                                                               DefaultVerbosity))]
                  /\ thisPort' = safe
                  /\ targetPort' = safe

\* the child is ready and start() resolves: startSyncCheck() / startPolling()
\* begin with loadSettings()
PortsReady ==
  /\ DrivesPorts
  /\ portPhase = "waiting"
  /\ op' = "ready"
  /\ ret' = "resolved"
  /\ portPhase' = "running"
  /\ thisPort' = netPort
  /\ UNCHANGED <<netPort, advVerbosity, safePort, spawnArgs, targetPort>>

\* a tick of the proxy's sync check: the probe goes to this.port
PortsProbe ==
  /\ DrivesPorts
  /\ mgr = "proxy"
  /\ portPhase = "running"
  /\ op' = "tick"
  /\ ret' = "none"
  /\ targetPort' = thisPort
  /\ UNCHANGED <<netPort, advVerbosity, thisPort, safePort, spawnArgs, portPhase>>

\* SETTINGS_SET('network', {proxyPort | storagePort: v}): setSetting, then
\* with the proxy running applySettingsChange(), whose loadSettings() copies
\* the new value into this.port; these values give no reason to restart
PortsSettingsSet(v) ==
  /\ DrivesPorts
  /\ op' = "SETTINGS_SET"
  /\ ret' = "ok"
  /\ netPort' = v
  /\ thisPort' = IF mgr = "proxy" /\ portPhase # "stopped" THEN v ELSE thisPort
  /\ UNCHANGED <<advVerbosity, safePort, spawnArgs, targetPort, portPhase>>

\* SETTINGS_SET('advanced', {storageVerbosity: v})
PortsVerbositySet(v) ==
  /\ DrivesPorts
  /\ mgr = "storage"
  /\ op' = "SETTINGS_SET"
  /\ ret' = "ok"
  /\ advVerbosity' = v
  /\ UNCHANGED <<netPort, thisPort, safePort, spawnArgs, targetPort, portPhase>>

\* stop(), or the child's exit: the handle is cleared, this.port stays
PortsStop ==
  /\ DrivesPorts
  /\ portPhase # "stopped"
  /\ op' = "stop"
  /\ ret' = "ok"
  /\ portPhase' = "stopped"
  /\ UNCHANGED <<netPort, advVerbosity, thisPort, safePort, spawnArgs, targetPort>>

PortsNext ==
  \/ PortsStart
  \/ PortsReady
  \/ PortsProbe
  \/ \E v \in PortValues : PortsSettingsSet(v)
  \/ \E v \in VerbosityValues : PortsVerbositySet(v)
  \/ PortsStop

\* ----------------------------------------------------------- bag operations
\* addBag, removeBag, listBags, pauseBag and getBagDetails of the
\* StorageManager, called while the manager goes through its life.

StorageNotRunningError == "Storage daemon not running"
BagOps == {"addBag", "removeBag", "listBags", "pauseBag", "getBagDetails"}
BagIds == 1..MaxBags

\* what the daemon's GET /api/v1/list can hold for one bag: of a BagInfo the
\* id and the three flags the status is derived from (every other field is
\* copied or renamed as it is)
BagInfos ==
  [bag_id : BagIds, active : BOOLEAN, completed : BOOLEAN, seeding : BOOLEAN]
\* the lists of at most MaxBags bags, in the order of their ids
BagLists ==
  UNION {{l \in [1..n -> BagInfos] : \A i \in 1..n : l[i].bag_id = i} : n \in 0..MaxBags}

\* mapBagInfo(info)
MapBagInfo_SeedingFlag(info) ==
  [id |-> info.bag_id,
   status |-> IF ~info.active THEN "paused"
              ELSE IF info.completed /\ info.seeding THEN "seeding"
              ELSE "downloading"]

MapBagInfo(info) ==
  [id |-> info.bag_id,
   status |-> IF ~info.active THEN "paused"
              ELSE IF info.completed /\ info.seeding THEN "seeding"
              ELSE IF info.completed THEN "seeding"
              ELSE "downloading"]

InitBags ==
  /\ bagReqs = {}
  /\ bagAnswer = <<>>
  /\ bagResult = <<>>

\* the macrotask is a bag operation of the storage manager or its completion
DrivesBags ==
  /\ mgr = "storage"
  /\ emitted' = <<>>
  /\ UNCHANGED <<mgr, pVars, sVars, cVars, ptVars, rlVars, stVars, valVars, hVars, ncVars, fvVars, hcVars, dpVars, crVars>>

\* a bag operation is called: without a client it throws (listBags returns
\* an empty list) before any request; with one the request goes out and the
\* call is suspended on it
BagCall(name) ==
  /\ DrivesBags
  /\ op' = name
  /\ UNCHANGED <<bagAnswer, bagResult>>
  /\ IF sClient = Null
     THEN /\ ret' = IF name = "listBags" THEN "[]" ELSE StorageNotRunningError
          /\ UNCHANGED bagReqs
     ELSE /\ name \notin bagReqs
          /\ Cardinality(bagReqs) < MaxBagOps
          /\ ret' = "pending"
          /\ bagReqs' = bagReqs \cup {name}

\* the request of a bag operation fails: the call rejects
BagFailed(name) ==
  /\ DrivesBags
  /\ name \in bagReqs
  /\ op' = "response"
  /\ ret' = "rejected"
  /\ bagReqs' = bagReqs \ {name}
  /\ UNCHANGED <<bagAnswer, bagResult>>

\* the daemon answers the request of listBags(): bags.map(this.mapBagInfo)
BagListed(answer) ==
  /\ DrivesBags
  /\ "listBags" \in bagReqs
  /\ op' = "response"
  /\ ret' = "bags"
  /\ bagReqs' = bagReqs \ {"listBags"}
  /\ bagAnswer' = answer
  /\ bagResult' = [i \in 1..Len(answer) |-> MapBagInfo(answer[i])]

\* the daemon answers another bag operation: its result is returned
BagAnswered(name) ==
  /\ DrivesBags
  /\ name \in bagReqs \ {"listBags"}
  /\ op' = "response"
  /\ ret' = "resolved"
  /\ bagReqs' = bagReqs \ {name}
  /\ UNCHANGED <<bagAnswer, bagResult>>

BagNext ==
  \/ \E name \in BagOps : BagCall(name)
  \/ \E name \in BagOps : BagFailed(name)
  \/ \E answer \in BagLists : BagListed(answer)
  \/ \E name \in BagOps : BagAnswered(name)

\* ------------------------------------------------------------- RateLimiter
\* One RateLimiter(maxCalls, windowMs) and the clock Date.now() reads.

\* the record of the accepted calls: none, and one more at the time now
NoneAccepted == [t \in 0..MaxClock |-> 0]
OneMore(accepted, now, maxCalls) ==
  [accepted EXCEPT ![now] = IF @ > maxCalls THEN @ ELSE @ + 1]

InitRate ==
  /\ rlMaxCalls = 1
  /\ rlWindowMs = 1
  /\ rlCalls = <<>>
  /\ rlNow = 0
  /\ rlBurst = 0
  /\ rlLast = -1
  /\ rlAccepted = NoneAccepted

\* the macrotask belongs to the limiter
DrivesRate ==
  /\ mgr \in {"limiter", "handlers"}
  /\ emitted' = <<>>
  /\ UNCHANGED <<mgr, pVars, sVars, cVars, ptVars, bVars, stVars, valVars, hVars, ncVars, fvVars, hcVars, dpVars, crVars>>

\* a filter that keeps a timestamp until it is older than the window
InWindow_Inclusive(calls, now, windowMs) ==
  SelectSeq(calls, LAMBDA t : now - t <= windowMs)

\* this.calls.filter(t => now - t < this.windowMs)
InWindow(calls, now, windowMs) == SelectSeq(calls, LAMBDA t : now - t < windowMs)

\* this.calls.length >= this.maxCalls
AtLimit(calls, maxCalls) == Len(calls) >= maxCalls

\* check()
RateCheck ==
  /\ DrivesRate
  /\ op' = "check"
  /\ LET calls == InWindow(rlCalls, rlNow, rlWindowMs) IN
     IF AtLimit(calls, rlMaxCalls)
     THEN /\ rlCalls' = calls
          /\ ret' = "false"
          /\ rlAccepted' = rlAccepted
     ELSE /\ rlCalls' = Append(calls, rlNow)
          /\ ret' = "true"
          /\ rlAccepted' = OneMore(rlAccepted, rlNow, rlMaxCalls)
  /\ rlBurst' = IF rlBurst >= 0 /\ rlBurst <= rlMaxCalls THEN rlBurst + 1 ELSE -1
  /\ rlLast' = rlNow
  /\ UNCHANGED <<rlMaxCalls, rlWindowMs, rlNow>>

\* reset()
RateReset ==
  /\ DrivesRate
  /\ op' = "reset"
  /\ ret' = "none"
  /\ rlCalls' = <<>>
  /\ rlBurst' = 0
  /\ rlLast' = -1
  /\ rlAccepted' = NoneAccepted
  /\ UNCHANGED <<rlMaxCalls, rlWindowMs, rlNow>>

\* d milliseconds pass
RateAdvance(d) ==
  /\ DrivesRate
  /\ rlNow + d <= MaxClock
  /\ op' = "advance"
  /\ ret' = "none"
  /\ rlNow' = rlNow + d
  /\ rlBurst' = IF rlBurst = 0 THEN 0 ELSE -1
  /\ UNCHANGED <<rlMaxCalls, rlWindowMs, rlCalls, rlLast, rlAccepted>>

RateNext ==
  \/ RateCheck
  \/ RateReset
  \/ \E d \in 1..(MaxWindow + 1) : RateAdvance(d)

\* ----------------------------------------------------------- settings store
\* loadSettings, saveSettings, setSetting and resetSettings over the cache
\* and the settings file.  An object is a function from the keys it has; of
\* the six categories three are carried, with the fields that are type
\* checked on load (network.proxyPort, appearance.theme) and two that are
\* not (general.homepage, general.restoreTabs).

Empty == [k \in {} |-> 0]
NoCache == [null |-> TRUE]             \* settingsCache = null
NotObject == [notObject |-> TRUE]      \* a category that is null or an array
\* three of the six categories, each with the fields the store looks at
Categories == {"general", "network", "appearance"}

\* getDefaultSettings()
DefaultSettings ==
  [general |-> [homepage |-> "ton://start", restoreTabs |-> FALSE],
   network |-> [proxyPort |-> JsNum(DefaultProxyPort)],
   appearance |-> [theme |-> "resistance-dog"]]

\* the objects a category is given: fields left out or set
GeneralObjects ==
  {h @@ r : h \in {Empty, [homepage |-> "http://custom.ton"]},
            r \in {Empty, [restoreTabs |-> TRUE]}}
NetworkObjects(ports) == {Empty} \cup {[proxyPort |-> v] : v \in ports}
AppearanceObjects ==
  {Empty} \cup {[theme |-> v] : v \in {"midnight-blue", "custom:neon", "dark"}}
ObjectsOf(category, ports) ==
  CASE category = "general" -> GeneralObjects
    [] category = "network" -> NetworkObjects(ports)
    [] OTHER -> AppearanceObjects
\* the settings objects built from them, with categories left out or, with
\* `more`, replaced by something that is not a plain object
SettingsObjects(ports, more) ==
  {g @@ n @@ a :
     g \in {Empty} \cup {[general |-> v] : v \in GeneralObjects \cup more},
     n \in {Empty} \cup {[network |-> v] : v \in NetworkObjects(ports) \cup more},
     a \in {Empty} \cup {[appearance |-> v] : v \in AppearanceObjects \cup more}}

\* the values a caller passes for the port, and those a JSON document holds
PortInputs == {JsNum(9000), JsString(DefaultProxyPort), JsNaN}
PortsInJson == {JsNum(9000), JsString(DefaultProxyPort), JsNull}

\* the settings file: absent, not parsable, or holding a JSON value
FileAbsent == [kind |-> "absent", doc |-> Empty]
FileCorrupt == [kind |-> "corrupt", doc |-> Empty]
FileNotObject == [kind |-> "notObject", doc |-> Empty]
FileOf(doc) == [kind |-> "object", doc |-> doc]
NoRead == [kind |-> "none", doc |-> Empty]
\* a file that holds the beginning of a document
FilePartial == [kind |-> "partial", doc |-> Empty]
\* writeFileSync(tempFile) and renameSync(tempFile, settingsFile): both go
\* well, or the write throws part of the way, or the rename throws
IoOutcomes == {"ok", "write fails", "rename fails"}
Files ==
  {FileAbsent, FileCorrupt, FileNotObject}
    \cup {FileOf(d) : d \in SettingsObjects(PortsInJson, {NotObject})}

\* JSON.parse(JSON.stringify(settings, null, 2)): NaN is written as null
JsonValue(v) == IF v.nan THEN JsNull ELSE v
Stringify(settings) ==
  [c \in DOMAIN settings |->
     IF c = "network" /\ "proxyPort" \in DOMAIN settings[c]
     THEN [settings[c] EXCEPT !.proxyPort = JsonValue(@)]
     ELSE settings[c]]

\* a validator that looks at the categories and not at their fields
IsValidSettingsObject_CategoriesOnly(obj) ==
  \A c \in DOMAIN obj \cap Categories : obj[c] # NotObject

\* isValidSettingsObject(obj) for a parsed object; of the custom themes the
\* documents hold "custom:neon"
IsValidSettingsObject(obj) ==
  /\ \A c \in DOMAIN obj \cap Categories : obj[c] # NotObject
  /\ ("network" \in DOMAIN obj /\ "proxyPort" \in DOMAIN obj.network) =>
       TypeOf(obj.network.proxyPort) = "number"
  /\ ("appearance" \in DOMAIN obj /\ "theme" \in DOMAIN obj.appearance) =>
       obj.appearance.theme \in {"resistance-dog", "utya-duck", "midnight-blue",
                                 "canard-yellow", "custom:neon"}

InitSettings ==
  /\ settingsCache = NoCache
  /\ settingsFile = FileAbsent
  /\ settingsCall = [category |-> "", values |-> Empty]
  /\ settingsRead = NoRead
  /\ settingsTmp = FileAbsent
  /\ settingsWrite = "none"

\* the macrotask belongs to the settings store
DrivesSettings ==
  /\ mgr = "settings"
  /\ emitted' = <<>>
  /\ ret' = "none"
  /\ UNCHANGED <<mgr, pVars, sVars, cVars, ptVars, bVars, rlVars, valVars, hVars, ncVars, fvVars, hcVars, dpVars, crVars>>

\* a saveSettings(settings) that writes the document to the settings file
\* itself
SaveSettings_InPlace(st, settings, io) ==
  IF io = "write fails"
  THEN [st EXCEPT !.file = FilePartial, !.write = io]
  ELSE [st EXCEPT !.cache = settings, !.file = FileOf(Stringify(settings)),
                  !.write = io]

\* saveSettings(settings) on the store st = [cache, file, tmp, write]: the
\* document is written to the .tmp file, that is renamed over the settings
\* file and the cache is set; when the write or the rename throws the error
\* is logged and the rest is skipped
SaveSettings(st, settings, io) ==
  CASE io = "ok" ->
         [cache |-> settings, file |-> FileOf(Stringify(settings)),
          tmp |-> FileAbsent, write |-> io]
    [] io = "rename fails" ->
         [st EXCEPT !.tmp = FileOf(Stringify(settings)), !.write = io]
    [] OTHER -> [st EXCEPT !.tmp = FilePartial, !.write = io]

\* { ...defaults.c, ...loaded.c } for every category
MergeOverDefaults(loaded) ==
  [c \in Categories |->
     IF c \in DOMAIN loaded THEN loaded[c] @@ DefaultSettings[c]
     ELSE DefaultSettings[c]]

\* the old theme names are replaced
MigrateTheme(settings) ==
  CASE settings.appearance.theme = "midnight-blue" ->
         [settings EXCEPT !.appearance.theme = "resistance-dog"]
    [] settings.appearance.theme = "canard-yellow" ->
         [settings EXCEPT !.appearance.theme = "utya-duck"]
    [] OTHER -> settings

\* loadSettings() past the cache: the file is looked for, read, validated,
\* merged over the defaults and migrated
ReadSettings(st, io) ==
  LET defaults == [st EXCEPT !.cache = DefaultSettings] IN
  IF st.file.kind = "absent"
  THEN SaveSettings(defaults, DefaultSettings, io)
  ELSE IF st.file.kind = "corrupt"
  THEN defaults
  ELSE IF st.file.kind = "notObject" \/ ~IsValidSettingsObject(st.file.doc)
  THEN SaveSettings(defaults, DefaultSettings, io)
  ELSE LET merged == MergeOverDefaults(st.file.doc)
           migrated == MigrateTheme(merged)
       IN IF migrated # merged
          THEN SaveSettings([st EXCEPT !.cache = migrated], migrated, io)
          ELSE [st EXCEPT !.cache = merged]

\* a loadSettings() that goes to the disk every time
LoadSettings_Reread(st, io) == ReadSettings(st, io)

\* loadSettings() on the store st; what it returns is the cache it leaves
LoadSettings(st, io) ==
  IF st.cache # NoCache THEN st ELSE ReadSettings(st, io)

\* setSetting(category, values) on the store st: the category of the loaded
\* object is replaced by the merge, then the object is saved
SetSetting_Replace(st, category, values, io) ==
  LET loaded == LoadSettings(st, io)
      settings == [c \in DOMAIN loaded.cache \cup {category} |->
                     IF c = category THEN values ELSE loaded.cache[c]]
  IN SaveSettings([loaded EXCEPT !.cache = settings], settings, io)

SetSetting(st, category, values, io) ==
  LET loaded == LoadSettings(st, io)
      settings == [c \in DOMAIN loaded.cache \cup {category} |->
                     IF c # category THEN loaded.cache[c]
                     ELSE IF c \in DOMAIN loaded.cache
                          THEN values @@ loaded.cache[c]
                          ELSE values]
  IN SaveSettings([loaded EXCEPT !.cache = settings], settings, io)

Store ==
  [cache |-> settingsCache, file |-> settingsFile, tmp |-> settingsTmp,
   write |-> "none"]
\* the call leaves the store as st
Leaves(st) ==
  /\ settingsCache' = st.cache
  /\ settingsFile' = st.file
  /\ settingsTmp' = st.tmp
  /\ settingsWrite' = st.write
\* loadSettings() looks at the disk when nothing is cached
Reads == settingsRead' = IF settingsCache = NoCache THEN settingsFile ELSE NoRead

\* loadSettings() is called; the write it may make goes well or fails
SettingsLoad(io) ==
  /\ DrivesSettings
  /\ op' = "load"
  /\ settingsCall' = [category |-> "", values |-> Empty]
  /\ Reads
  /\ Leaves(LoadSettings(Store, io))

\* saveSettings(s) is called
SettingsSave(s, io) ==
  /\ DrivesSettings
  /\ op' = "save"
  /\ settingsCall' = [category |-> "*", values |-> s]
  /\ settingsRead' = NoRead
  /\ Leaves(SaveSettings(Store, s, io))

\* setSetting(category, values) is called
SettingsSet(category, values, io) ==
  /\ DrivesSettings
  /\ op' = "set"
  /\ settingsCall' = [category |-> category, values |-> values]
  /\ Reads
  /\ Leaves(SetSetting(Store, category, values, io))

\* resetSettings() is called
SettingsReset(io) ==
  /\ DrivesSettings
  /\ op' = "reset"
  /\ settingsCall' = [category |-> "", values |-> Empty]
  /\ settingsRead' = NoRead
  /\ Leaves(SaveSettings(Store, DefaultSettings, io))

\* getSetting(category) is called; it returns the category of the cache
SettingsGet(category, io) ==
  /\ DrivesSettings
  /\ op' = "get"
  /\ settingsCall' = [category |-> category, values |-> Empty]
  /\ Reads
  /\ Leaves(LoadSettings(Store, io))

\* another program rewrites or removes the settings file
SettingsEdited(file) ==
  /\ DrivesSettings
  /\ file # settingsFile
  /\ op' = "edited"
  /\ settingsFile' = file
  /\ settingsRead' = NoRead
  /\ settingsWrite' = "none"
  /\ UNCHANGED <<settingsCache, settingsCall, settingsTmp>>

\* the application is started again: a new process with an empty cache
SettingsRestart ==
  /\ DrivesSettings
  /\ settingsCache # NoCache
  /\ op' = "restart"
  /\ settingsCache' = NoCache
  /\ settingsRead' = NoRead
  /\ settingsWrite' = "none"
  /\ UNCHANGED <<settingsFile, settingsCall, settingsTmp>>

\* the calls, with every write to the disk succeeding
SettingsNext ==
  \/ SettingsLoad("ok")
  \/ \E s \in SettingsObjects(PortInputs, {}) : SettingsSave(s, "ok")
  \/ \E c \in Categories : \E v \in ObjectsOf(c, PortInputs) : SettingsSet(c, v, "ok")
  \/ SettingsReset("ok")
  \/ SettingsRestart

\* the objects saved and the values set on a disk where a write or a rename
\* may throw
DiskSaves ==
  {[general |-> [homepage |-> "http://custom.ton"]],
   [network |-> [proxyPort |-> JsNum(9000)]]}
DiskSets ==
  {[category |-> "general", values |-> [restoreTabs |-> TRUE]],
   [category |-> "network", values |-> [proxyPort |-> JsNum(9000)]]}

\* what another program leaves in the place of the settings file
EditedFiles ==
  {FileAbsent, FileCorrupt,
   FileOf([network |-> [proxyPort |-> JsNum(9000)]]),
   FileOf([appearance |-> [theme |-> "custom:neon"]])}

\* the calls of a process whose settings file is edited behind its back
EditedNext ==
  \/ SettingsLoad("ok")
  \/ \E c \in Categories : SettingsGet(c, "ok")
  \/ \E c \in DiskSets : SettingsSet(c.category, c.values, "ok")
  \/ \E f \in EditedFiles : SettingsEdited(f)
  \/ SettingsRestart

DiskNext ==
  \E io \in IoOutcomes :
    \/ SettingsLoad(io)
    \/ \E s \in DiskSaves : SettingsSave(s, io)
    \/ \E c \in DiskSets : SettingsSet(c.category, c.values, io)
    \/ SettingsReset(io)
    \/ SettingsRestart

\* ------------------------------------------------------------- validators
\* A string is the sequence of its characters; a value that is no string has
\* its type and the characters String(value) gives.
Str(chars) == [type |-> "string", chars |-> chars]
NullValue == [type |-> "object", chars |-> <<"n", "u", "l", "l">>]
UndefinedValue ==
  [type |-> "undefined", chars |-> <<"u", "n", "d", "e", "f", "i", "n", "e", "d">>]
\* [s]: an array holding the one string s
ArrayOf(s) == [type |-> "object", chars |-> s.chars]

\* what a call comes to
\* what a call comes to; an error is its text and the scheme the text ends
\* with ("": none)
Error(text, scheme) == [text |-> text, scheme |-> scheme]
NoError == Error("", "")
NotCalled == [threw |-> FALSE, valid |-> FALSE, error |-> Error("not called", "")]
Returned(valid, error) == [threw |-> FALSE, valid |-> valid, error |-> error]
Threw == [threw |-> TRUE, valid |-> FALSE, error |-> Error("TypeError", "")]

\* /^[a-fA-F0-9]{64}$/
BagIdLength == 64
HexChars ==
  {"a", "b", "c", "d", "e", "f", "A", "B", "C", "D", "E", "F",
   "0", "1", "2", "3", "4", "5", "6", "7", "8", "9"}
BagIdPattern(chars) ==
  /\ Len(chars) = BagIdLength
  /\ \A i \in 1..Len(chars) : chars[i] \in HexChars

\* a validator that leaves the conversion to String to the pattern
IsValidBagId_AnyType(bagId) == BagIdPattern(bagId.chars)

\* isValidBagId(bagId)
IsValidBagId(bagId) == TypeOf(bagId) = "string" /\ BagIdPattern(bagId.chars)

\* the bag ids tried: a run of one character followed by a run of another,
\* of lengths around the 64 of the pattern
Run(c, n) == [i \in 1..n |-> c]
RunLengths == {0, 1, BagIdLength - 1, BagIdLength}
BagIdChars == {"a", "F", "9", "g", "-", "\n"}
BagIdStrings ==
  {Str(Run(c, n) \o Run(d, m)) :
     c \in BagIdChars, d \in BagIdChars, n \in RunLengths, m \in RunLengths}
BagIdValues ==
  BagIdStrings \cup {NullValue, UndefinedValue}
    \cup {ArrayOf(Str(Run(c, BagIdLength))) : c \in BagIdChars}

\* A URL text is the sequence of its pieces: the separators ":", "://" and "/"
\* and, between them, words without a colon or a slash.
UrlStr(tokens) == [type |-> "string", tokens |-> tokens]
Separators == {":", "://", "/"}
IsWord(token) == token \notin Separators
\* the words tried, and what the URL parser makes of each: a scheme starts
\* with a letter and goes on with letters, digits, "+", "-" and "."; a host
\* holds no space and no "<"; a port is digits
SchemeWords ==
  {"ton", "http", "https", "HTTP", "javascript", "data", "file", "vbscript",
   "ftp", "example.com"}
HostWords == SchemeWords \cup {"alert(1)", "8080"}
PortWords == {"8080"}
Words == HostWords \cup {"bad host"}
Lower(word) == IF word = "HTTP" THEN "http" ELSE word
SpecialSchemes == {"http", "https", "ftp", "ws", "wss", "file"}

\* url.startsWith('ton://')
StartsWithTon(t) == Len(t) >= 2 /\ t[1] = "ton" /\ t[2] = "://"
\* url.includes('://')
IncludesSlashes(t) == \E i \in 1..Len(t) : t[i] = "://"

\* the slashes a special scheme skips before its host
RECURSIVE SkipSlashes(_)
SkipSlashes(t) ==
  IF Len(t) >= 1 /\ t[1] = "/" THEN SkipSlashes(Tail(t)) ELSE t

\* the authority of a URL parses: a host the scheme accepts, then nothing, a
\* path, or a colon with nothing or digits behind it
AuthorityParses(t, emptyHost) ==
  LET hasHost == Len(t) >= 1 /\ IsWord(t[1])
      after == IF hasHost THEN Tail(t) ELSE t
      colon == Len(after) >= 1 /\ after[1] \in {":", "://"}
  IN /\ IF hasHost THEN t[1] \in HostWords ELSE emptyHost /\ ~colon
     /\ (colon /\ after[1] = ":" /\ Len(after) >= 2 /\ IsWord(after[2]))
          => after[2] \in PortWords

\* new URL(t): [ok, protocol], the protocol without its colon
ParseUrl(t) ==
  IF ~(Len(t) >= 2 /\ t[1] \in SchemeWords /\ t[2] \in {":", "://"})
  THEN [ok |-> FALSE, protocol |-> ""]
  ELSE LET scheme == Lower(t[1])
           rest == SubSeq(t, 3, Len(t))
       IN [protocol |-> scheme,
           ok |-> CASE scheme = "file" -> TRUE
                    [] scheme \in SpecialSchemes ->
                         AuthorityParses(SkipSlashes(rest), FALSE)
                    [] t[2] = ":" -> TRUE
                    [] OTHER -> AuthorityParses(rest, TRUE)]

ALLOWED_SCHEMES == {"http", "https", "ton"}
DangerousSchemes == {"javascript", "data", "file", "vbscript"}

\* a validator that accepts whatever parses
IsValidNavigationUrl_AnyScheme(url) ==
  IF TypeOf(url) # "string" THEN Threw
  ELSE IF StartsWithTon(url.tokens) THEN Returned(TRUE, NoError)
  ELSE LET urlToParse == IF IncludesSlashes(url.tokens) THEN url.tokens
                         ELSE <<"http", "://">> \o url.tokens
       IN IF ParseUrl(urlToParse).ok THEN Returned(TRUE, NoError)
          ELSE Returned(FALSE, Error("Invalid URL format", ""))

\* isValidNavigationUrl(url)
IsValidNavigationUrl(url) ==
  IF TypeOf(url) # "string" THEN Threw
  ELSE IF StartsWithTon(url.tokens) THEN Returned(TRUE, NoError)
  ELSE LET urlToParse == IF IncludesSlashes(url.tokens) THEN url.tokens
                         ELSE <<"http", "://">> \o url.tokens
           parsed == ParseUrl(urlToParse)
       IN CASE ~parsed.ok -> Returned(FALSE, Error("Invalid URL format", ""))
            [] parsed.protocol \notin ALLOWED_SCHEMES ->
                 Returned(FALSE, Error("Blocked scheme: ", parsed.protocol))
            [] parsed.protocol \in DangerousSchemes ->
                 Returned(FALSE, Error("Dangerous scheme: ", parsed.protocol))
            [] OTHER -> Returned(TRUE, NoError)

\* the texts tried: nothing, a word, or a word and a separator, followed by
\* nothing, a host, a host with a port, a host with "://" behind it, or a path
UrlHeads ==
  {<<>>, <<"://">>} \cup {<<w>> : w \in SchemeWords}
    \cup {<<w, sep>> : w \in SchemeWords, sep \in {":", "://"}}
UrlTails ==
  {<<>>} \cup {<<h>> : h \in {"example.com", "alert(1)", "8080", "bad host"}}
    \cup {<<h, ":", port>> : h \in {"example.com"}, port \in {"8080", "alert(1)"}}
    \cup {<<"alert(1)", "://", "alert(1)">>, <<"/", "example.com">>}
UrlTexts ==
  {t \in {head \o tail : head \in UrlHeads, tail \in UrlTails} :
     \A i \in 1..(Len(t) - 1) : ~(IsWord(t[i]) /\ IsWord(t[i + 1]))}
UrlValues == {UrlStr(t) : t \in UrlTexts} \cup {NullValue, UndefinedValue}

\* A path is a leading slash or none and the segments between its slashes; a
\* segment is a name of the file system followed by more characters or not.
Name(base, more) == [base |-> base, more |-> more]
Dot == Name(".", "")
DotDot == Name("..", "")
Blank == Name(" ", "")
PathStr(absolute, segments) ==
  [type |-> "string", absolute |-> absolute, segments |-> segments]
Dir(names) == [i \in 1..Len(names) |-> Name(names[i], "")]

\* inputPath.trim() === ''
TrimsToNothing(p) == ~p.absolute /\ p.segments \in {<<>>, <<Blank>>}

\* path.normalize of an absolute path
RECURSIVE Normalize(_, _)
Normalize(segments, done) ==
  IF segments = <<>> THEN done
  ELSE LET seg == Head(segments) IN
       Normalize(Tail(segments),
                 CASE seg = Dot -> done
                   [] seg = DotDot ->
                        IF done = <<>> THEN done ELSE SubSeq(done, 1, Len(done) - 1)
                   [] OTHER -> Append(done, seg))

\* normalized === dir || normalized.startsWith(dir + '/')
IsOrIsUnder(normalized, dir) ==
  /\ Len(normalized) >= Len(dir)
  /\ SubSeq(normalized, 1, Len(dir)) = dir
\* normalized.startsWith(root): the text of the path begins with the text of
\* the root, whose last segment may go on in the path
StartsWith(normalized, root) ==
  /\ root # <<>>
  /\ Len(normalized) >= Len(root)
  /\ SubSeq(normalized, 1, Len(root) - 1) = SubSeq(root, 1, Len(root) - 1)
  /\ normalized[Len(root)].base = root[Len(root)].base

blockedPaths ==
  {Dir(<<d>>) : d \in {"bin", "sbin", "usr", "etc", "var", "sys", "proc",
                       "dev", "boot", "lib"}}
\* os.homedir() and the roots allowed beside it where the platform is not
\* win32
HomeDir == Dir(<<"Users", "user">>)
allowedRoots == {HomeDir, Dir(<<"tmp">>), Dir(<<"home">>)}

\* isValidDownloadPath(inputPath) where process.platform is not 'win32'
IsValidDownloadPath(inputPath) ==
  IF TypeOf(inputPath) # "string" \/ TrimsToNothing(inputPath)
  THEN Returned(FALSE, Error("Path must be a non-empty string", ""))
  ELSE IF ~inputPath.absolute
  THEN Returned(FALSE, Error("Path must be absolute", ""))
  ELSE LET normalized == Normalize(inputPath.segments, <<>>) IN
       IF \E blocked \in blockedPaths : IsOrIsUnder(normalized, blocked)
       THEN Returned(FALSE, Error("System directories are not allowed", ""))
       ELSE IF ~(\E root \in allowedRoots : StartsWith(normalized, root))
       THEN Returned(FALSE, Error("Path must be in user-accessible directory", ""))
       ELSE Returned(TRUE, NoError)

\* the paths tried
PathNames ==
  {Dot, DotDot, Blank}
    \cup {Name(base, more) : base \in {"tmp", "home", "Users", "user", "etc", "opt"},
                             more \in {"", "foo"}}
PathValues ==
  {PathStr(absolute, segments) :
     absolute \in BOOLEAN,
     segments \in UNION {[1..n -> PathNames] : n \in 0..MaxPathLen}}
    \cup {NullValue, UndefinedValue}

InitValidators ==
  /\ valFn = "none"
  /\ valArg = NullValue
  /\ valOut = NotCalled

\* the macrotask is a call of a validator
DrivesValidators ==
  /\ mgr = "validators"
  /\ valOut = NotCalled
  /\ emitted' = <<>>
  /\ ret' = "none"
  /\ UNCHANGED <<mgr, pVars, sVars, cVars, ptVars, bVars, rlVars, stVars, hVars, ncVars, fvVars, hcVars, dpVars, crVars>>
  /\ UNCHANGED <<valFn, valArg>>

\* isValidBagId(valArg) is called
ValidateBagId ==
  /\ DrivesValidators
  /\ valFn = "isValidBagId"
  /\ op' = "isValidBagId"
  /\ valOut' = Returned(IsValidBagId(valArg), NoError)

\* isValidNavigationUrl(valArg) is called
ValidateNavigationUrl ==
  /\ DrivesValidators
  /\ valFn = "isValidNavigationUrl"
  /\ op' = "isValidNavigationUrl"
  /\ valOut' = IsValidNavigationUrl(valArg)

\* isValidDownloadPath(valArg) is called
ValidateDownloadPath ==
  /\ DrivesValidators
  /\ valFn = "isValidDownloadPath"
  /\ op' = "isValidDownloadPath"
  /\ valOut' = IsValidDownloadPath(valArg)

ValidatorsNext ==
  \/ ValidateBagId
  \/ ValidateNavigationUrl
  \/ ValidateDownloadPath

\* --------------------------------------------------------- storage handlers
\* the channels that come with a bag id, and the function of the storage
\* layer each handler calls with it
StorageCalls ==
  [STORAGE_ADD_BAG |-> "addBag", STORAGE_REMOVE_BAG |-> "removeBag",
   STORAGE_PAUSE_BAG |-> "pauseBag", STORAGE_RESUME_BAG |-> "resumeBag",
   STORAGE_GET_DETAILS |-> "getBagDetails",
   STORAGE_OPEN_FOLDER |-> "getBagDetails",
   STORAGE_SHOW_FILE |-> "getBagDetails"]
\* the handlers that start with storageLimiter.check()
RateLimited == {"STORAGE_ADD_BAG"}

\* the bag ids the renderer sends
SentBagIds ==
  {Str(Run("a", BagIdLength)), Str(Run("a", BagIdLength - 1)),
   Str(Run("g", BagIdLength)), NullValue}

InitHandlers ==
  /\ hChannel = "none"
  /\ hBagId = NullValue
  /\ hCheck = "none"
  /\ hReached = "none"
  /\ hResult = ""

\* a handler that passes the bag id on as it came
HandlerReply_Unvalidated(channel, check, bagId) ==
  IF check = "false" THEN [reached |-> "none", error |-> "Rate limited"]
  ELSE [reached |-> StorageCalls[channel], error |-> ""]

\* the handler of a channel, after its storageLimiter.check() if it has one:
\* the function it goes on to call, or the error it returns at once
HandlerReply(channel, check, bagId) ==
  IF check = "false" THEN [reached |-> "none", error |-> "Rate limited"]
  ELSE IF ~IsValidBagId(bagId)
  THEN [reached |-> "none", error |-> "Invalid bag ID format"]
  ELSE [reached |-> StorageCalls[channel], error |-> ""]

\* the renderer invokes a channel with a bag id
StorageInvoke(channel, bagId) ==
  /\ mgr = "handlers"
  /\ op' = "invoke"
  /\ ret' = "none"
  /\ emitted' = <<>>
  /\ hChannel' = channel
  /\ hBagId' = bagId
  /\ LET calls == InWindow(rlCalls, rlNow, rlWindowMs)
         check == CASE channel \notin RateLimited -> "none"
                    [] AtLimit(calls, rlMaxCalls) -> "false"
                    [] OTHER -> "true"
         reply == HandlerReply(channel, check, bagId)
     IN /\ hCheck' = check
        /\ rlCalls' = CASE check = "none" -> rlCalls
                        [] check = "false" -> calls
                        [] OTHER -> Append(calls, rlNow)
        /\ hReached' = reply.reached
        /\ hResult' = reply.error
  /\ UNCHANGED <<mgr, pVars, sVars, cVars, ptVars, bVars, stVars, valVars, ncVars, fvVars, hcVars, dpVars, crVars>>
  /\ UNCHANGED <<rlMaxCalls, rlWindowMs, rlNow>>
  \* the records kept of the calls made on a limiter directly are not kept
  \* of the calls a handler makes
  /\ UNCHANGED <<rlBurst, rlLast, rlAccepted>>

HandlersNext ==
  \/ \E channel \in DOMAIN StorageCalls : \E bagId \in SentBagIds :
       StorageInvoke(channel, bagId)
  \/ \E d \in 1..MaxWindow : RateAdvance(d)

\* ------------------------------------------------- network settings change
\* SETTINGS_SET on a running proxy: setSetting(), then applySettingsChange()
\* and, when it asks for one, restart().

MaxSettling == 1

AltProxyPort == DefaultProxyPort + 1
DefaultNetwork ==
  [proxyPort |-> DefaultProxyPort, anonymousMode |-> FALSE,
   circuitRotation |-> TRUE, rotateInterval |-> "10m"]
NetworkSettings ==
  [proxyPort : {DefaultProxyPort, AltProxyPort}, anonymousMode : BOOLEAN,
   circuitRotation : BOOLEAN, rotateInterval : {"10m", "30m"}]

\* the values objects the renderer sends: one field of the category, or none
NetworkChanges ==
  {<<>>}
    \cup {[f \in {"proxyPort"} |-> p] : p \in {DefaultProxyPort, AltProxyPort}}
    \cup {[f \in {"anonymousMode"} |-> b] : b \in BOOLEAN}
    \cup {[f \in {"circuitRotation"} |-> b] : b \in BOOLEAN}
    \cup {[f \in {"rotateInterval"} |-> i] : i \in {"10m", "30m"}}

\* { ...settings[category], ...values }
MergeValues(settings, values) ==
  [f \in DOMAIN settings |->
     IF f \in DOMAIN values THEN values[f] ELSE settings[f]]

InitNetChange ==
  /\ ncLive = DefaultNetwork
  /\ ncThis = DefaultNetwork
  /\ ncStarted = DefaultNetwork
  /\ ncProcess = FALSE
  /\ ncSettling = 0

DrivesNetChange ==
  /\ mgr = "netchange"
  /\ emitted' = <<>>
  /\ UNCHANGED <<mgr, pVars, sVars, cVars, ptVars, bVars, rlVars, stVars, valVars, hVars, fvVars, hcVars, dpVars, crVars>>

\* the fields start() assigns before it spawns: the sanitized port and the
\* three circuit settings
StartFields(network) ==
  [network EXCEPT
     !.proxyPort = ValidatePort(JsNum(network.proxyPort), DefaultProxyPort).val]

\* needsRestart of applySettingsChange()
NeedsRestart(network, this) ==
  \/ network.anonymousMode # this.anonymousMode
  \/ /\ this.anonymousMode
     /\ \/ network.circuitRotation # this.circuitRotation
        \/ network.rotateInterval # this.rotateInterval

\* start(), by the connect paths or at the end of restart()
NetStartFrom(settling) ==
  /\ op' = "start"
  /\ ncSettling' = settling
  /\ IF ncProcess
     THEN /\ ret' = AlreadyRunningProxy
          /\ UNCHANGED <<ncLive, ncThis, ncStarted, ncProcess>>
     ELSE /\ ret' = "pending"
          /\ ncThis' = StartFields(ncLive)
          /\ ncStarted' = ncLive
          /\ ncProcess' = TRUE
          /\ UNCHANGED ncLive

NetStart == DrivesNetChange /\ NetStartFrom(ncSettling)

\* stop(), or the exit of the child
NetStop ==
  /\ DrivesNetChange
  /\ ncProcess
  /\ op' = "stop"
  /\ ret' = "ok"
  /\ ncProcess' = FALSE
  /\ UNCHANGED <<ncLive, ncThis, ncStarted, ncSettling>>

\* the SETTINGS_SET handler on category 'network': setSetting merges the
\* values into the live settings; with a process held applySettingsChange()
\* reloads the settings (this.port follows the live port) and, when a restart
\* is needed, restart() runs stop() and begins its settle delay
NetSettingsSet(values) ==
  /\ DrivesNetChange
  /\ op' = "settings"
  /\ ncLive' = MergeValues(ncLive, values)
  /\ UNCHANGED ncStarted
  /\ IF ~ncProcess
     THEN /\ ret' = "not running"
          /\ UNCHANGED <<ncThis, ncProcess, ncSettling>>
     ELSE /\ ncThis' = [ncThis EXCEPT !.proxyPort = ncLive'.proxyPort]
          /\ IF NeedsRestart(ncLive', ncThis)
             THEN /\ ncSettling < MaxSettling
                  /\ ret' = "restarting"
                  /\ ncProcess' = FALSE
                  /\ ncSettling' = ncSettling + 1
             ELSE /\ ret' = "kept"
                  /\ UNCHANGED <<ncProcess, ncSettling>>

\* the settle delay of a restart() is over: start()
NetSettled ==
  /\ DrivesNetChange
  /\ ncSettling > 0
  /\ NetStartFrom(ncSettling - 1)

NetChangeNext ==
  \/ NetStart
  \/ NetStop
  \/ \E values \in NetworkChanges : NetSettingsSet(values)
  \/ NetSettled

\* ---------------------------------------------------- field type validation
\* isValidSettingsObject on the six categories.  A field holds a JSON value:
\* its typeof and its text; an array has typeof 'object' and the text "[]",
\* null has typeof 'object' and the text "null".

Value(type, text) == [type |-> type, text |-> text]
IsArray(v) == v.type = "object" /\ v.text = "[]"
AllCategories ==
  {"general", "network", "storage", "appearance", "privacy", "advanced"}
BuiltInThemes ==
  {"resistance-dog", "utya-duck", "midnight-blue", "canard-yellow"}
CustomThemeIds == {"custom:neon"}

\* the numeric and boolean fields of AppSettings with their declared types
DeclaredTypes ==
  [general |-> [restoreTabs |-> "boolean"],
   network |-> [proxyPort |-> "number", storagePort |-> "number",
                autoConnect |-> "boolean", connectionTimeout |-> "number",
                syncCheckInterval |-> "number", anonymousMode |-> "boolean",
                circuitRotation |-> "boolean"],
   storage |-> [pollingInterval |-> "number"],
   appearance |-> [defaultZoom |-> "number", zoomMin |-> "number",
                   zoomMax |-> "number", showBookmarksBar |-> "boolean",
                   showStatusBar |-> "boolean"],
   privacy |-> [clearOnExit |-> "boolean"],
   advanced |-> [proxyVerbosity |-> "number", storageVerbosity |-> "number"]]

\* obj[category][field] is present and typeof finds another type than t
PresentNot(obj, category, field, t) ==
  /\ category \in DOMAIN obj
  /\ field \in DOMAIN obj[category]
  /\ TypeOf(obj[category][field]) # t

\* isValidSettingsObject(obj) for a parsed object: every known category is
\* an object, and then the tests of the network, privacy and appearance
\* fields
FieldTypes(obj) ==
  /\ \A c \in DOMAIN obj \cap AllCategories : obj[c] # NotObject
  /\ ~PresentNot(obj, "network", "proxyPort", "number")
  /\ ~PresentNot(obj, "network", "storagePort", "number")
  /\ ~PresentNot(obj, "network", "autoConnect", "boolean")
  /\ ~PresentNot(obj, "network", "anonymousMode", "boolean")
  /\ ~PresentNot(obj, "network", "circuitRotation", "boolean")
  /\ ~PresentNot(obj, "network", "rotateInterval", "string")
  /\ ~PresentNot(obj, "privacy", "clearOnExit", "boolean")
  /\ ("appearance" \in DOMAIN obj /\ "theme" \in DOMAIN obj.appearance) =>
       /\ TypeOf(obj.appearance.theme) = "string"
       /\ obj.appearance.theme.text \in BuiltInThemes \cup CustomThemeIds
  /\ ~PresentNot(obj, "appearance", "defaultZoom", "number")
  /\ ("appearance" \in DOMAIN obj /\ "customThemes" \in DOMAIN obj.appearance) =>
       IsArray(obj.appearance.customThemes)

\* the values a field of the document holds
FieldValues ==
  {Value("number", "1"), Value("string", "1"), Value("boolean", "true"),
   Value("object", "null"), Value("object", "[]"),
   Value("string", "utya-duck"), Value("string", "custom:neon")}
FieldNames(c) ==
  IF c \in AllCategories
  THEN DOMAIN DeclaredTypes[c] \cup
         (IF c = "network" THEN {"rotateInterval"}
          ELSE IF c = "appearance" THEN {"theme", "customThemes"}
          ELSE IF c = "general" THEN {"homepage"}
          ELSE {})
  ELSE {"foo"}

\* the documents: no category, one category that is not an object or holds
\* no field, one field in one category
Documents ==
  {Empty}
    \cup {c :> NotObject : c \in AllCategories \cup {"unknownCategory"}}
    \cup {c :> Empty : c \in AllCategories \cup {"unknownCategory"}}
    \cup UNION {{c :> (f :> v) : f \in FieldNames(c), v \in FieldValues} :
                  c \in AllCategories \cup {"unknownCategory"}}

InitFields ==
  /\ fvDoc = Empty
  /\ fvOut = "none"

\* loadSettings() hands the parsed document to isValidSettingsObject
ValidateFields ==
  /\ mgr = "fields"
  /\ fvOut = "none"
  /\ op' = "isValidSettingsObject"
  /\ ret' = "none"
  /\ emitted' = <<>>
  /\ fvOut' = IF FieldTypes(fvDoc) THEN "true" ELSE "false"
  /\ UNCHANGED fvDoc
  /\ UNCHANGED <<mgr, pVars, sVars, cVars, ptVars, bVars, rlVars, stVars,
                 valVars, hVars, ncVars, hcVars, dpVars, crVars>>

FieldsNext == ValidateFields

\* ------------------------------------------------------ storage HTTP client
\* StorageHTTPClient: fetch(), the calls built on it, and ping().  A response
\* is its status and its body; a body is empty, or JSON text that parses to
\* an object, to null or to a number, or text that does not parse.

Bodies == {"", "{\"bags\":[]}", "{\"ok\":true}", "null", "5", "<html>"}
SuccessStatuses == {200, 204}
Statuses == SuccessStatuses \cup {404, 500}
Refused == [kind |-> "refused", status |-> 0, body |-> ""]
Response(status, body) == [kind |-> "response", status |-> status, body |-> body]
Responses == {Refused} \cup {Response(s, b) : s \in Statuses, b \in Bodies}

\* response.ok
Ok(response) == response.status \in SuccessStatuses

\* JSON.parse(text): the kind of value, or "SyntaxError"
JsonParse(text) ==
  CASE text \in {"{\"bags\":[]}", "{\"ok\":true}"} -> "object"
    [] text = "null" -> "null"
    [] text = "5" -> "number"
    [] OTHER -> "SyntaxError"

NoOutcome == [kind |-> "none", value |-> "", status |-> 0, body |-> ""]
Value_(v) == [kind |-> "returned", value |-> v, status |-> 0, body |-> ""]
Thrown(name) == [kind |-> "threw", value |-> name, status |-> 0, body |-> ""]
\* new Error(`HTTP ${response.status}: ${text}`)
HttpError(status, body) ==
  [kind |-> "threw", value |-> "Error", status |-> status, body |-> body]

\* a fetch() that does not look at response.ok
Fetch_IgnoresStatus(response) ==
  IF response.kind = "refused" THEN Thrown("TypeError: fetch failed")
  ELSE IF response.body = "" THEN Value_("object")
  ELSE IF JsonParse(response.body) = "SyntaxError" THEN Thrown("SyntaxError")
  ELSE Value_(JsonParse(response.body))

\* fetch<T>(endpoint, options): one request; what it resolves to or throws
Fetch(response) ==
  IF response.kind = "refused" THEN Thrown("TypeError: fetch failed")
  ELSE IF ~Ok(response) THEN HttpError(response.status, response.body)
  ELSE IF response.body = "" THEN Value_("object")
  ELSE IF JsonParse(response.body) = "SyntaxError" THEN Thrown("SyntaxError")
  ELSE Value_(JsonParse(response.body))

\* listBags(): result.bags || [] on what fetch() resolved to
ListBags(response) ==
  LET result == Fetch(response) IN
  IF result.kind = "threw" THEN result
  ELSE IF result.value = "null" THEN Thrown("TypeError")
  ELSE Value_("array")

\* ping(): listBags() in a try block
Ping(response) ==
  IF ListBags(response).kind = "threw" THEN Value_("false") ELSE Value_("true")

FetchCalls ==
  {"getBagDetails", "addBag", "createBag", "removeBag", "stopBag", "verifyBag"}
ClientCalls == FetchCalls \cup {"listBags", "ping"}

\* the outcome of a call of the client
ClientCall(call, response) ==
  CASE call = "ping" -> Ping(response)
    [] call = "listBags" -> ListBags(response)
    [] OTHER -> Fetch(response)

InitHttp ==
  /\ hcCall = "none"
  /\ hcResponse = Refused
  /\ hcRequests = 0
  /\ hcOut = NoOutcome

\* the call is made: its request is sent and answered
HttpCall ==
  /\ mgr = "client"
  /\ hcOut = NoOutcome
  /\ op' = hcCall
  /\ ret' = "none"
  /\ emitted' = <<>>
  /\ hcRequests' = hcRequests + 1
  /\ hcOut' = ClientCall(hcCall, hcResponse)
  /\ UNCHANGED <<hcCall, hcResponse>>
  /\ UNCHANGED <<mgr, pVars, sVars, cVars, ptVars, bVars, rlVars, stVars,
                 valVars, hVars, ncVars, fvVars, dpVars, crVars>>

HttpNext == HttpCall

\* ---------------------------------------------------- download path handlers
\* The channels that change storage.downloadPath: STORAGE_SET_DOWNLOAD_PATH,
\* STORAGE_SELECT_DOWNLOAD_FOLDER and SETTINGS_SET on category 'storage'.

\* getDefaultStoragePath(): the storage folder under the user data folder
DefaultStoragePath == PathStr(TRUE, Dir(<<"Users", "user", "storage">>))

\* the folders an open dialog returns
DialogFolders ==
  {PathStr(TRUE, Dir(names)) :
     names \in {<<"Users", "user", "foo">>, <<"tmp">>, <<"etc">>, <<"opt">>}}
\* the paths the renderer sends
RendererPaths ==
  DialogFolders
    \cup {PathStr(FALSE, Dir(<<"foo">>)),
          PathStr(TRUE, <<Name("tmp", ""), DotDot, Name("etc", "")>>),
          NullValue}

InitDownloadPath ==
  /\ dpChannel = "none"
  /\ dpPersisted = DefaultStoragePath
  /\ dpStoragePath = DefaultStoragePath
  /\ dpReply = FALSE

DrivesDownloadPath ==
  /\ mgr = "downloadPath"
  /\ op' = "invoke"
  /\ ret' = "none"
  /\ emitted' = <<>>
  /\ UNCHANGED <<mgr, pVars, sVars, cVars, ptVars, bVars, rlVars, stVars,
                 valVars, hVars, ncVars, fvVars, hcVars, crVars>>

\* STORAGE_SET_DOWNLOAD_PATH: isValidDownloadPath, then setDownloadPath and
\* storageManager.setStoragePath
SetDownloadPath(inputPath) ==
  /\ DrivesDownloadPath
  /\ dpChannel' = "STORAGE_SET_DOWNLOAD_PATH"
  /\ IF ~IsValidDownloadPath(inputPath).valid
     THEN /\ dpReply' = FALSE
          /\ UNCHANGED <<dpPersisted, dpStoragePath>>
     ELSE /\ dpPersisted' = inputPath
          /\ dpStoragePath' = inputPath
          /\ dpReply' = TRUE

\* STORAGE_SELECT_DOWNLOAD_FOLDER with a window: the dialog is cancelled, or
\* its first folder goes to setDownloadPath and storageManager.setStoragePath
SelectDownloadFolder(canceled, selectedPath) ==
  /\ DrivesDownloadPath
  /\ dpChannel' = "STORAGE_SELECT_DOWNLOAD_FOLDER"
  /\ IF canceled
     THEN /\ dpReply' = FALSE
          /\ UNCHANGED <<dpPersisted, dpStoragePath>>
     ELSE /\ dpPersisted' = selectedPath
          /\ dpStoragePath' = selectedPath
          /\ dpReply' = TRUE

\* SETTINGS_SET on category 'storage' with a downloadPath among the values:
\* setSetting merges it into the settings
SettingsSetDownloadPath(path) ==
  /\ DrivesDownloadPath
  /\ dpChannel' = "SETTINGS_SET"
  /\ dpPersisted' = path
  /\ dpReply' = TRUE
  /\ UNCHANGED dpStoragePath

DownloadPathNext ==
  \/ \E inputPath \in RendererPaths : SetDownloadPath(inputPath)
  \/ \E canceled \in BOOLEAN, selectedPath \in DialogFolders :
       SelectDownloadFolder(canceled, selectedPath)
  \/ \E path \in RendererPaths : SettingsSetDownloadPath(path)

\* ----------------------------------------------------------- circuit relays
\* this.circuitRelays of ProxyManager: filled from the child's stdout in
\* anonymous mode, reported by getStatus().

MaxCircuits == 2

CircuitChildren == 1..MaxCircuits
Slots == 1..3                      \* entry, middle, exit
RelayNames == {"relayA", "relayB"}
NoRelays == [slot \in Slots |-> ""]

\* a chunk of stdout: the slots whose pattern (Entry:, Middle:, Exit:) it
\* matches, each with the name captured
StdoutLines == UNION {[matched -> RelayNames] : matched \in SUBSET Slots}

InitCircuit ==
  /\ crProcess = Null
  /\ crChild = [c \in CircuitChildren |-> "none"]
  /\ crListen = {}
  /\ crAnonymous = FALSE
  /\ crRelays = NoRelays

DrivesCircuit ==
  /\ mgr = "circuit"
  /\ emitted' = <<>>
  /\ UNCHANGED <<mgr, pVars, sVars, cVars, ptVars, bVars, rlVars, stVars,
                 valVars, hVars, ncVars, fvVars, hcVars, dpVars>>

\* start() with network.anonymousMode = anonymous: throws with a process
\* held, otherwise takes the mode, spawns and attaches its listeners
CircuitStart(anonymous) ==
  /\ DrivesCircuit
  /\ op' = "start"
  /\ IF crProcess # Null
     THEN /\ ret' = AlreadyRunningProxy
          /\ UNCHANGED crVars
     ELSE /\ \E c \in CircuitChildren :
               /\ crChild[c] = "none"
               /\ \A d \in CircuitChildren : d < c => crChild[d] # "none"
               /\ crProcess' = c
               /\ crChild' = [crChild EXCEPT ![c] = "running"]
               /\ crListen' = crListen \cup {c}
          /\ crAnonymous' = anonymous
          /\ ret' = "pending"
          /\ UNCHANGED crRelays

\* the stdout 'data' listener of child c, which may still hold buffered
\* output when the child has exited
CircuitStdout(c, line) ==
  /\ DrivesCircuit
  /\ c \in crListen
  /\ op' = "stdout"
  /\ ret' = "none"
  /\ crRelays' =
       IF crAnonymous
       THEN [slot \in Slots |->
               IF slot \in DOMAIN line THEN line[slot] ELSE crRelays[slot]]
       ELSE crRelays
  /\ UNCHANGED <<crProcess, crChild, crListen, crAnonymous>>

\* stop(): with a process held, removes the listeners, kills the child and
\* empties the relays
CircuitStop ==
  /\ DrivesCircuit
  /\ op' = "stop"
  /\ ret' = "ok"
  /\ IF crProcess # Null
     THEN /\ crListen' = crListen \ {crProcess}
          /\ crChild' = [crChild EXCEPT ![crProcess] = "exited"]
          /\ crProcess' = Null
          /\ crRelays' = NoRelays
     ELSE UNCHANGED <<crProcess, crChild, crListen, crRelays>>
  /\ UNCHANGED crAnonymous

\* the 'exit' listener of child c
CircuitExit(c) ==
  /\ DrivesCircuit
  /\ c \in crListen
  /\ crChild[c] = "running"
  /\ op' = "exit"
  /\ ret' = "none"
  /\ crChild' = [crChild EXCEPT ![c] = "exited"]
  /\ crProcess' = Null
  /\ UNCHANGED <<crListen, crAnonymous, crRelays>>

CircuitNext ==
  \/ \E anonymous \in BOOLEAN : CircuitStart(anonymous)
  \/ \E c \in CircuitChildren, line \in StdoutLines : CircuitStdout(c, line)
  \/ CircuitStop
  \/ \E c \in CircuitChildren : CircuitExit(c)

\* ---------------------------------------------------------- specifications

InitCommon ==
  /\ op = "init"
  /\ ret = "none"
  /\ emitted = <<>>
  /\ InitProxy
  /\ InitStorage
  /\ InitConnect
  /\ InitPorts
  /\ InitBags
  /\ InitRate
  /\ InitSettings
  /\ InitValidators
  /\ InitHandlers
  /\ InitCircuit
  /\ InitDownloadPath
  /\ InitHttp
  /\ InitFields
  /\ InitNetChange

Init ==
  /\ mgr \in {"proxy", "storage"}
  /\ InitCommon

Next ==
  \/ ProxyNext(MaxSpawn)
  \/ StorageNext(MaxSpawn, AttemptBound)

Spec == Init /\ [][Next]_vars

\* a network-settings change on the proxy manager
InitNetChangeOf ==
  /\ mgr = "netchange"
  /\ InitCommon

SpecNetChange == InitNetChangeOf /\ [][NetChangeNext]_vars

\* the storage manager alone, with the readiness budget start() really passes
InitReady ==
  /\ mgr = "storage"
  /\ InitCommon

NextReady == StorageNext(ReadySpawns, DefaultMaxAttempts)

SpecReady == InitReady /\ [][NextReady]_vars

\* the connect paths over the two managers
InitConnectPaths ==
  /\ mgr = "connect"
  /\ InitCommon

SpecConnect == InitConnectPaths /\ [][ConnectNext]_vars

\* either manager, seen for the port it reports and the port it spawned with
InitPortsOf ==
  /\ mgr \in {"proxy", "storage"}
  /\ InitCommon

SpecPorts == InitPortsOf /\ [][PortsNext]_vars

\* the storage manager with its bag operations
NextBags == StorageNext(ReadySpawns, AttemptBound) \/ BagNext

SpecBags == InitReady /\ [][NextBags]_vars

\* the settings store of a process just started, over whatever file is there
InitStore ==
  /\ mgr = "settings"
  /\ op = "init"
  /\ ret = "none"
  /\ emitted = <<>>
  /\ InitProxy
  /\ InitStorage
  /\ InitConnect
  /\ InitPorts
  /\ InitBags
  /\ InitRate
  /\ InitValidators
  /\ InitHandlers
  /\ InitCircuit
  /\ InitDownloadPath
  /\ InitHttp
  /\ InitFields
  /\ InitNetChange
  /\ settingsCache = NoCache
  /\ settingsFile \in Files
  /\ settingsCall = [category |-> "", values |-> Empty]
  /\ settingsRead = NoRead
  /\ settingsTmp = FileAbsent
  /\ settingsWrite = "none"

SpecSettings == InitStore /\ [][SettingsNext]_vars

\* the settings store on a new installation: no settings file yet
InitDisk ==
  /\ mgr = "settings"
  /\ InitCommon

SpecDisk == InitDisk /\ [][DiskNext]_vars

SpecEdited == InitDisk /\ [][EditedNext]_vars

\* a RateLimiter(maxCalls, windowMs) just constructed
InitLimiter ==
  /\ mgr = "limiter"
  /\ op = "init"
  /\ ret = "none"
  /\ emitted = <<>>
  /\ InitProxy
  /\ InitStorage
  /\ InitConnect
  /\ InitPorts
  /\ InitBags
  /\ InitSettings
  /\ InitValidators
  /\ InitHandlers
  /\ InitCircuit
  /\ InitDownloadPath
  /\ InitHttp
  /\ InitFields
  /\ InitNetChange
  /\ rlMaxCalls \in 1..MaxRate
  /\ rlWindowMs \in 0..MaxWindow
  /\ rlCalls = <<>>
  /\ rlNow = 0
  /\ rlBurst = 0
  /\ rlLast = -1
  /\ rlAccepted = NoneAccepted

SpecRate == InitLimiter /\ [][RateNext]_vars

\* the storage handlers behind a storageLimiter just constructed (the
\* program's RateLimiter(10, 1000), here with a smaller count and window)
InitHandlersOf ==
  /\ mgr = "handlers"
  /\ op = "init"
  /\ ret = "none"
  /\ emitted = <<>>
  /\ InitProxy
  /\ InitStorage
  /\ InitConnect
  /\ InitPorts
  /\ InitBags
  /\ InitSettings
  /\ InitValidators
  /\ InitHandlers
  /\ InitCircuit
  /\ InitDownloadPath
  /\ InitHttp
  /\ InitFields
  /\ InitNetChange
  /\ rlMaxCalls \in 1..MaxRate
  /\ rlWindowMs \in 1..MaxWindow
  /\ rlCalls = <<>>
  /\ rlNow = 0
  /\ rlBurst = 0
  /\ rlLast = -1
  /\ rlAccepted = NoneAccepted

SpecHandlers == InitHandlersOf /\ [][HandlersNext]_vars

\* the bag operations on a storage manager that is running: child 1 was
\* spawned, its first ping succeeded, polling has begun
InitListing ==
  /\ mgr = "storage"
  /\ op = "ping"
  /\ ret = "resolved"
  /\ emitted = <<Event("started")>>
  /\ InitProxy
  /\ sProcess = 1
  /\ sClient = 1
  /\ sIsRunning = TRUE
  /\ sPollInterval = 1
  /\ sTimers = {1}
  /\ sChild = [c \in Children |-> IF c = 1 THEN "running" ELSE "none"]
  /\ sListen = {1}
  /\ sWait = [c \in Children |->
               IF c = 1 THEN [phase |-> "ready", i |-> 0, max |-> AttemptBound,
                              pings |-> 1]
               ELSE NoWait]
  /\ sLists = 0
  /\ sDown = "none"
  /\ sQuiet = -1
  /\ InitConnect
  /\ InitPorts
  /\ InitBags
  /\ InitRate
  /\ InitSettings
  /\ InitValidators
  /\ InitHandlers
  /\ InitCircuit
  /\ InitDownloadPath
  /\ InitHttp
  /\ InitFields
  /\ InitNetChange

SpecListing == InitListing /\ [][BagNext]_vars

\* a validator about to be called with one of the values tried on it
InitValidatorsOf ==
  /\ mgr = "validators"
  /\ op = "init"
  /\ ret = "none"
  /\ emitted = <<>>
  /\ InitProxy
  /\ InitStorage
  /\ InitConnect
  /\ InitPorts
  /\ InitBags
  /\ InitRate
  /\ InitSettings
  /\ InitHandlers
  /\ InitCircuit
  /\ InitDownloadPath
  /\ InitHttp
  /\ InitFields
  /\ InitNetChange
  /\ valOut = NotCalled
  /\ \/ valFn = "isValidBagId" /\ valArg \in BagIdValues
     \/ valFn = "isValidNavigationUrl" /\ valArg \in UrlValues
     \/ valFn = "isValidDownloadPath" /\ valArg \in PathValues

SpecValidators == InitValidatorsOf /\ [][ValidatorsNext]_vars

\* isValidSettingsObject on its own: the document is drawn from the documents
InitFieldsOf ==
  /\ mgr = "fields"
  /\ op = "init"
  /\ ret = "none"
  /\ emitted = <<>>
  /\ InitProxy
  /\ InitStorage
  /\ InitConnect
  /\ InitPorts
  /\ InitBags
  /\ InitRate
  /\ InitSettings
  /\ InitValidators
  /\ InitHandlers
  /\ InitCircuit
  /\ InitDownloadPath
  /\ InitHttp
  /\ InitNetChange
  /\ fvOut = "none"
  /\ fvDoc \in Documents

SpecFields == InitFieldsOf /\ [][FieldsNext]_vars

\* the HTTP client on its own: the call and the daemon's answer are drawn
InitHttpOf ==
  /\ mgr = "client"
  /\ op = "init"
  /\ ret = "none"
  /\ emitted = <<>>
  /\ InitProxy
  /\ InitStorage
  /\ InitConnect
  /\ InitPorts
  /\ InitBags
  /\ InitRate
  /\ InitSettings
  /\ InitValidators
  /\ InitHandlers
  /\ InitCircuit
  /\ InitDownloadPath
  /\ InitFields
  /\ InitNetChange
  /\ hcCall \in ClientCalls
  /\ hcResponse \in Responses
  /\ hcRequests = 0
  /\ hcOut = NoOutcome

SpecHttp == InitHttpOf /\ [][HttpNext]_vars

\* the download path handlers on their own
InitDownloadPathOf ==
  /\ mgr = "downloadPath"
  /\ InitCommon

SpecDownloadPath == InitDownloadPathOf /\ [][DownloadPathNext]_vars

\* the circuit relays on their own
InitCircuitOf ==
  /\ mgr = "circuit"
  /\ InitCommon

SpecCircuit == InitCircuitOf /\ [][CircuitNext]_vars

\* ------------------------------------------------------------------ claims

Emitted(n) == \E j \in 1..Len(emitted) : emitted[j].name = n
EmittedTimes(n) == Cardinality({j \in 1..Len(emitted) : emitted[j].name = n})
SpawnFailed(st) == st = "failed"
Terminated(st) == st \in {"killed", "exited"}

\* C1: a start() called while the manager holds a process handle, also while
\* an earlier start() still awaits readiness, rejects with the manager's
\* 'already running' error, spawns no child and leaves the handle, the status
\* and the timers as they were.
C1_StartWhileHeldRejects ==
  [][ /\ (op' = "start" /\ mgr = "proxy" /\ pProcess # Null) =>
           /\ ret' = AlreadyRunningProxy
           /\ emitted' = <<>>
           /\ UNCHANGED <<pProcess, pStatus, pSyncInterval, pTimers, pChild, pWait>>
      /\ (op' = "start" /\ mgr = "storage" /\ sProcess # Null) =>
           /\ ret' = AlreadyRunningStorage
           /\ emitted' = <<>>
           /\ UNCHANGED <<sProcess, sClient, sIsRunning, sPollInterval, sTimers,
                          sChild, sWait>>
    ]_vars

\* a start() has just been rejected while the earlier start() of the held
\* child is still waiting for the readiness marker
C1_Witness ==
  /\ mgr = "proxy"
  /\ op = "start"
  /\ ret = AlreadyRunningProxy
  /\ pProcess # Null
  /\ pWait[pProcess] = "waiting"

\* C2: every change of the proxy status is stopped -> starting by start(),
\* starting -> syncing by the readiness marker, syncing -> connected by a
\* probe, or anything -> stopped by stop() or the child's exit.
StatusStep(from, to, by) ==
  \/ from = "stopped" /\ to = "starting" /\ by = "start"
  \/ from = "starting" /\ to = "syncing" /\ by = "stdout"
  \/ from = "syncing" /\ to = "connected" /\ by = "probe"
  \/ to = "stopped" /\ by \in {"stop", "exit"}

C2_StatusTransitions ==
  [][ pStatus' # pStatus => StatusStep(pStatus, pStatus', op') ]_vars

\* C3: stop() on a manager holding a process detaches the child's listeners,
\* sends SIGTERM, clears the handle (and the storage client), cancels the
\* recurring timer, leaves the manager stopped and emits 'disconnected' /
\* 'stopped' exactly once; stop() without a process throws nothing, signals
\* nothing and emits nothing.
C3_StopEffects ==
  [][ /\ (op' = "stop" /\ mgr = "proxy") =>
           /\ ret' = "ok"
           /\ pSyncInterval' = Null
           /\ pSyncInterval # Null => pSyncInterval \notin pTimers'
           /\ IF pProcess # Null
              THEN /\ pProcess \notin pListen'
                   /\ pChild'[pProcess] = "killed"
                   /\ pProcess' = Null
                   /\ pStatus' = "stopped"
                   /\ EmittedTimes("disconnected")' = 1
              ELSE /\ emitted' = <<>>
                   /\ UNCHANGED <<pProcess, pStatus, pChild, pListen>>
      /\ (op' = "stop" /\ mgr = "storage") =>
           /\ ret' = "ok"
           /\ sPollInterval' = Null
           /\ sPollInterval # Null => sPollInterval \notin sTimers'
           /\ IF sProcess # Null
              THEN /\ sProcess \notin sListen'
                   /\ sChild'[sProcess] = "killed"
                   /\ sProcess' = Null
                   /\ sClient' = Null
                   /\ sIsRunning' = FALSE
                   /\ EmittedTimes("stopped")' = 1
              ELSE /\ emitted' = <<>>
                   /\ UNCHANGED <<sProcess, sClient, sIsRunning, sChild, sListen>>
    ]_vars

\* stop() has just ended a child whose start() had resolved, and with it the
\* sync-check interval that start() had created
C3_Witness ==
  /\ mgr = "proxy"
  /\ op = "stop"
  /\ emitted = <<StatusEvent("stopped"), Event("disconnected")>>
  /\ \E c \in Children : pChild[c] = "killed" /\ pWait[c] = "ready"
  /\ pTimers = {}
  /\ pProbes > 0

\* C4: after a stop() that ended a child, the proxy status stays 'stopped'
\* and no 'status' notification is emitted until the next start().
C4_QuietAfterStop ==
  (mgr = "proxy" /\ pDown = "stop") =>
    /\ pStatus = "stopped"
    /\ op # "stop" => ~Emitted("status")

\* C5: after a stop() that ended the daemon, no 'bags-updated' is emitted
\* until a start() called later has resolved.
C5_NoBagsAfterStop ==
  (mgr = "storage" /\ sQuiet # -1) => ~Emitted("bags-updated")

\* C6: the 'exit' of the held child emits 'exit' with its code, clears the
\* handle (and the client), cancels the recurring timer and leaves the manager
\* stopped / not running, and it stays so until the next start().
C6_ExitCollapses ==
  [][ /\ (op' = "exit" /\ mgr = "proxy") =>
           /\ Emitted("exit")'
           /\ pProcess' = Null
           /\ pSyncInterval' = Null
           /\ pSyncInterval # Null => pSyncInterval \notin pTimers'
      /\ (op' = "exit" /\ mgr = "storage") =>
           /\ Emitted("exit")'
           /\ sProcess' = Null
           /\ sClient' = Null
           /\ sPollInterval' = Null
           /\ sPollInterval # Null => sPollInterval \notin sTimers'
      /\ pDown' = "exit" => pStatus' = "stopped"
      /\ sDown' = "exit" => ~sIsRunning'
    ]_vars

\* C7: the marker resolves start() with status 'syncing'; the first probe
\* answered with a status other than 502 makes it 'connected' and cancels the
\* interval; per start there is at most one 'connected' notification and no
\* probe is issued after it.
C7_ConnectedOnce ==
  mgr = "proxy" =>
    /\ (op = "stdout" /\ ret = "resolved") => pStatus = "syncing"
    /\ pConnects <= 1
    /\ ~pLateProbe

\* C8: when the readiness deadline expires, start() rejects with the timeout
\* error and the child it spawned is never left running unmanaged: it has
\* been terminated, or the manager still holds its handle.
C8_TimeoutKeepsChildManaged ==
  mgr = "proxy" =>
    /\ op = "timeout" => ret = ProxyTimeoutError
    /\ \A c \in Children :
         pWait[c] = "timeout" =>
           \/ Terminated(pChild[c])
           \/ SpawnFailed(pChild[c])
           \/ pProcess = c

\* start() has timed out and its child, still running, is the held handle
C8_Witness ==
  /\ mgr = "proxy"
  /\ op = "timeout"
  /\ \E c \in Children :
       pWait[c] = "timeout" /\ pChild[c] = "running" /\ pProcess = c

\* C9: a start() whose child could not be spawned never ends in the
\* readiness-timeout error.
C9_SpawnFailureNotTimeout ==
  \A c \in Children :
    /\ SpawnFailed(pChild[c]) => pWait[c] # "timeout"
    /\ SpawnFailed(sChild[c]) => sWait[c].phase # "notready"

\* C10: running, 'started' and the poll interval exist only after a ping has
\* succeeded; a start() pings at most 30 times, and when its loop ends without
\* a success it rejects with the not-ready error, emits nothing and does not
\* set running.
SomePingSucceeded == \E k \in Children : sWait[k].phase = "ready"

C10_RunningOnlyAfterPing ==
  /\ [](/\ sIsRunning => SomePingSucceeded
        /\ sTimers # {} => SomePingSucceeded
        /\ Emitted("started") => (op = "ping" /\ ret = "resolved")
        /\ \A k \in Children : sWait[k].pings <= DefaultMaxAttempts)
  /\ [][ \A k \in Children :
           (sWait[k].phase # "notready" /\ sWait'[k].phase = "notready") =>
             /\ ret' = StorageNotReadyError
             /\ emitted' = <<>>
             /\ sIsRunning' = sIsRunning
             /\ sTimers' = sTimers
             /\ sWait[k].pings = DefaultMaxAttempts \/ sClient = Null
     ]_vars

\* a start() has just rejected after the thirtieth ping failed
C10_Witness ==
  /\ op = "sleep"
  /\ ret = StorageNotReadyError
  /\ ~sIsRunning
  /\ \E k \in Children :
       sWait[k].phase = "notready" /\ sWait[k].pings = DefaultMaxAttempts

\* C11: on the connect paths storageManager.start() is invoked only once the
\* proxy status has reached 'connected', never while it is 'starting' or
\* 'syncing'.
C11_StorageStartAfterConnected == cInvokedAt \in {"none", "connected"}

\* C12: from a successful start() on, the port the manager reports
\* (getStatus().port, getProxyUrl()) and the port the sync probes go to are
\* the sanitized port of the running child's argument list, whatever happens
\* to the settings meanwhile.
C12_PortIsSpawnedPort ==
  portPhase = "running" =>
    /\ thisPort = safePort
    /\ op = "tick" => targetPort = safePort

\* a number p with lo <= p <= hi
NumberWithin(p, lo, hi) == p.type = "number" /\ ~p.nan /\ lo <= p.val /\ p.val <= hi
\* the text of a number within lo..hi
TextWithin(a, lo, hi) == a.text = "digits" /\ lo <= a.val /\ a.val <= hi

\* C13: the port in a spawned argument list is the configured value when that
\* is a number within 1024..65535 and the manager's default otherwise, the
\* storage verbosity is the configured value when a number within 0..5 and 2
\* otherwise; no argument list holds a port or verbosity that is not a number
\* in range.
C13_ArgsSanitized ==
  /\ (op = "start" /\ ret = "pending") =>
        /\ spawnArgs.port =
             ToText(IF NumberWithin(netPort, MinPort, MaxPort) THEN netPort
                    ELSE JsNum(DefaultPort(mgr)))
        /\ mgr = "storage" =>
             spawnArgs.verbosity =
               ToText(IF NumberWithin(advVerbosity, MinVerbosity, MaxVerbosity)
                      THEN advVerbosity ELSE JsNum(DefaultVerbosity))
  /\ spawnArgs # NoArgs =>
        /\ TextWithin(spawnArgs.port, MinPort, MaxPort)
        /\ mgr = "storage" =>
             TextWithin(spawnArgs.verbosity, MinVerbosity, MaxVerbosity)

\* C14: while the storage manager is not running (getStatus().running is
\* false) addBag, removeBag, pauseBag and getBagDetails reject with 'Storage
\* daemon not running' and listBags returns an empty list, in each case
\* without an HTTP request going out.
C14_NotRunningRejects ==
  [][ (op' \in BagOps /\ ~sIsRunning) =>
        /\ ret' = IF op' = "listBags" THEN "[]" ELSE StorageNotRunningError
        /\ bagReqs' = bagReqs
    ]_vars

\* C15: the status of a bag is 'paused' when it is not active, whatever the
\* other flags; 'seeding' when active and completed; 'downloading' when active
\* and not completed; every combination of the flags gives one of the three
\* and never 'error'.
C15_BagStatus ==
  /\ Len(bagResult) = Len(bagAnswer)
  /\ \A i \in 1..Len(bagAnswer) :
       LET info == bagAnswer[i]
           status == bagResult[i].status
       IN /\ ~info.active => status = "paused"
          /\ (info.active /\ info.completed) => status = "seeding"
          /\ (info.active /\ ~info.completed) => status = "downloading"
          /\ status \in {"paused", "seeding", "downloading"}

\* listBags() has returned a bag that is active and completed but not
\* flagged seeding, together with a paused one that is completed and seeding
C15_Witness ==
  /\ op = "response"
  /\ ret = "bags"
  /\ \E i, j \in 1..Len(bagAnswer) :
       /\ bagAnswer[i].active /\ bagAnswer[i].completed /\ ~bagAnswer[i].seeding
       /\ bagResult[i].status = "seeding"
       /\ ~bagAnswer[j].active /\ bagAnswer[j].completed /\ bagAnswer[j].seeding
       /\ bagResult[j].status = "paused"

\* what the claim says of one check(): the first maxCalls calls made in
\* immediate succession on a new limiter return true, the next one returns
\* false, and a call made more than windowMs after the last one returns true
BurstThenRecover ==
  /\ (rlBurst >= 0 /\ rlBurst < rlMaxCalls) => ret' = "true"
  /\ rlBurst = rlMaxCalls => ret' = "false"
  /\ (rlLast >= 0 /\ rlNow - rlLast > rlWindowMs) => ret' = "true"

WrongShape(file) ==
  \/ file.kind = "notObject"
  \/ /\ file.kind = "object"
     /\ \/ \E c \in DOMAIN file.doc : file.doc[c] = NotObject
        \/ /\ "network" \in DOMAIN file.doc
           /\ "proxyPort" \in DOMAIN file.doc.network
           /\ TypeOf(file.doc.network.proxyPort) # "number"

\* C17: when loadSettings() has read a settings file that parses but is of the
\* wrong shape (a known category that is not a plain object, a proxyPort that
\* is not a number, a document that is no object), the settings it returned
\* and cached are the compiled-in defaults in every category: nothing of the
\* file is in them.
C17_InvalidFileGivesDefaults ==
  (op = "load" /\ WrongShape(settingsRead)) => settingsCache = DefaultSettings

\* loadSettings() has read a file with a homepage of its own and a string for
\* the port, and the cache holds the defaults
C17_Witness ==
  /\ op = "load"
  /\ settingsRead = FileOf([general |-> [homepage |-> "http://custom.ton"],
                            network |-> [proxyPort |-> JsString(DefaultProxyPort)]])
  /\ settingsCache = DefaultSettings

\* the file is there and cannot be used: it does not parse, or what it holds
\* does not pass the validation
Unusable(file) ==
  \/ file.kind \in {"corrupt", "notObject"}
  \/ file.kind = "object" /\ ~IsValidSettingsObject(file.doc)

\* C18 as stated: a loadSettings() that found no file has written the
\* defaults to disk; one that found a file which does not parse or does not
\* pass validation has cached the defaults and left the file on disk as it
\* was.
C18_LoadWritesOnlyWhenAbsent ==
  op = "load" =>
    /\ settingsRead.kind = "absent" =>
         /\ settingsFile = FileOf(Stringify(DefaultSettings))
         /\ settingsCache = DefaultSettings
    /\ Unusable(settingsRead) =>
         /\ settingsFile = settingsRead
         /\ settingsCache = DefaultSettings

\* s merged over the defaults: every field of s as it is in s, every other
\* field at its default
MergedOverDefaults(s, settings) ==
  /\ DOMAIN settings = Categories
  /\ \A c \in Categories :
       /\ DOMAIN settings[c] = DOMAIN DefaultSettings[c]
       /\ \A f \in DOMAIN DefaultSettings[c] :
            settings[c][f] = IF c \in DOMAIN s /\ f \in DOMAIN s[c]
                             THEN s[c][f]
                             ELSE DefaultSettings[c][f]

\* C19 as stated: after saveSettings(s), with s of known categories and
\* fields only, a loadSettings() in a new process (nothing cached) returns
\* s merged over the defaults.
C19_RoundTrip ==
  [][ ( /\ settingsCall.category = "*"
        /\ settingsFile = FileOf(Stringify(settingsCall.values))
        /\ settingsCache = NoCache
        /\ op' = "load" )
      => MergedOverDefaults(settingsCall.values, settingsCache') ]_vars

\* the settings a setSetting() starts from: the cache, loaded first when
\* there is none
Before == LoadSettings(Store, "ok").cache

\* C20: setSetting(category, values) leaves every other category as it was,
\* leaves every field of the category that values does not name as it was,
\* gives every field that values names its new value, and the document on
\* disk is then the whole of the cached object.
C20_SetMergesPartial ==
  [][ op' = "set" =>
        LET c == settingsCall'.category
            values == settingsCall'.values
        IN /\ DOMAIN settingsCache' = DOMAIN Before \cup {c}
           /\ \A d \in DOMAIN Before \ {c} : settingsCache'[d] = Before[d]
           /\ DOMAIN settingsCache'[c] =
                DOMAIN values \cup (IF c \in DOMAIN Before THEN DOMAIN Before[c] ELSE {})
           /\ \A f \in DOMAIN values : settingsCache'[c][f] = values[f]
           /\ \A f \in DOMAIN settingsCache'[c] \ DOMAIN values :
                settingsCache'[c][f] = Before[c][f]
           /\ settingsFile' = FileOf(Stringify(settingsCache')) ]_vars

\* setSetting('general', { restoreTabs: true }) was called on settings with a
\* homepage and a port of their own: both are still there, in the cache and
\* on disk
C20_Witness ==
  /\ op = "set"
  /\ settingsCall = [category |-> "general", values |-> [restoreTabs |-> TRUE]]
  /\ settingsCache.general = [homepage |-> "http://custom.ton", restoreTabs |-> TRUE]
  /\ settingsCache.network.proxyPort = JsNum(9000)
  /\ settingsFile = FileOf(settingsCache)

\* the step is a saveSettings(), setSetting() or resetSettings() whose write
\* or rename has thrown
SaveFailed ==
  /\ op' \in {"save", "set", "reset"}
  /\ settingsWrite' \in {"write fails", "rename fails"}

\* C21 as stated: with settings loaded, a saveSettings(), setSetting() or
\* resetSettings() whose write or rename fails leaves the cache equal to the
\* cache before the call.
C21_FailedSaveKeepsCache ==
  [][ (SaveFailed /\ settingsCache # NoCache) => settingsCache' = settingsCache ]_vars

\* the object the last saveSettings() of a call is given: the argument of a
\* direct call, and otherwise the object the caller has put in the cache
PassedToSave == IF op' = "save" THEN settingsCall'.values ELSE settingsCache'

C23_CachedLoadSkipsDisk ==
  [][ (op' \in {"load", "get"} /\ settingsCache # NoCache) =>
        /\ settingsCache' = settingsCache
        /\ settingsRead' = NoRead
        /\ settingsWrite' = "none"
        /\ settingsFile' = settingsFile ]_vars

\* loadSettings() has returned the cached defaults without a look at the
\* disk, where the file has been given another port in the meantime
C23_Witness ==
  /\ op = "load"
  /\ settingsRead = NoRead
  /\ settingsCache = DefaultSettings
  /\ settingsFile = FileOf([network |-> [proxyPort |-> JsNum(9000)]])

\* isValidBagId has been called
BagIdChecked == valFn = "isValidBagId" /\ valOut # NotCalled

\* C24: isValidBagId does not throw; it returns true for a string of 64
\* characters that are all hexadecimal digits, and false for a string of
\* another length, for a string with any other character, and for a value
\* that is no string.
C24_BagIdIs64Hex ==
  BagIdChecked =>
    LET chars == valArg.chars IN
    /\ ~valOut.threw
    /\ ( /\ TypeOf(valArg) = "string"
         /\ Len(chars) = 64
         /\ \A i \in 1..64 : chars[i] \in HexChars ) => valOut.valid
    /\ TypeOf(valArg) # "string" => ~valOut.valid
    /\ Len(chars) # 64 => ~valOut.valid
    /\ (\E i \in 1..Len(chars) : chars[i] \notin HexChars) => ~valOut.valid

\* isValidBagId has returned true for 63 times "a" followed by "F"
C24_Witness ==
  /\ BagIdChecked
  /\ valArg = Str(Run("a", 63) \o Run("F", 1))
  /\ valOut.valid

\* isValidNavigationUrl has been called with a string
UrlChecked ==
  valFn = "isValidNavigationUrl" /\ valOut # NotCalled /\ TypeOf(valArg) = "string"

\* C25 as stated: called on a text that begins with javascript:, data:, file:
\* or vbscript:, isValidNavigationUrl returns valid = false with an error that
\* names that scheme.
C25_DangerousSchemeNamed ==
  ( /\ UrlChecked
    /\ Len(valArg.tokens) >= 2
    /\ valArg.tokens[1] \in {"javascript", "data", "file", "vbscript"}
    /\ valArg.tokens[2] \in {":", "://"} )
  => /\ ~valOut.threw
     /\ ~valOut.valid
     /\ valOut.error.scheme = valArg.tokens[1]

\* the text parses, with http:// put before it where it holds no "://", to a
\* URL of scheme http:, https: or ton:
ParsesToAllowed(t) ==
  LET parsed == ParseUrl(IF \E i \in 1..Len(t) : t[i] = "://" THEN t
                         ELSE <<"http", "://">> \o t)
  IN parsed.ok /\ parsed.protocol \in {"http", "https", "ton"}

\* C26: for a string, isValidNavigationUrl returns valid = true only when the
\* text begins with ton:// or parses to a URL of scheme http:, https: or ton:;
\* for every other text, of another scheme or not parsable, it returns
\* valid = false with an error.
C26_OnlyAllowedSchemes ==
  UrlChecked =>
    LET t == valArg.tokens
        allowed == (Len(t) >= 2 /\ t[1] = "ton" /\ t[2] = "://") \/ ParsesToAllowed(t)
    IN /\ valOut.valid => allowed
       /\ ~allowed => (~valOut.threw /\ ~valOut.valid /\ valOut.error.text # "")

\* 'example.com' has been accepted, through the http:// put before it
C26_Witness ==
  /\ UrlChecked
  /\ valArg = UrlStr(<<"example.com">>)
  /\ valOut.valid

\* C27 as stated: isValidNavigationUrl, isValidBagId and isValidDownloadPath
\* do not throw, whatever the value they are called with.
C27_ValidatorsNeverThrow == valOut # NotCalled => ~valOut.threw

\* the normalized path is a directory of the list or inside one
InsideOneOf(normalized, dirs) ==
  \E dir \in dirs :
    Len(normalized) >= Len(dir) /\ SubSeq(normalized, 1, Len(dir)) = dir

\* C28 as stated: isValidDownloadPath returns valid = true exactly for a
\* non-empty absolute path whose normalized form is neither a system
\* directory nor inside one and is an allowed root (the home directory, /tmp,
\* /home) or inside one; every other input gets valid = false with an error.
C28_PathInsideAllowedRoot ==
  (valFn = "isValidDownloadPath" /\ valOut # NotCalled) =>
    LET accepted ==
          /\ TypeOf(valArg) = "string"
          /\ valArg.absolute
          /\ LET normalized == Normalize(valArg.segments, <<>>) IN
             /\ ~InsideOneOf(normalized, blockedPaths)
             /\ InsideOneOf(normalized, allowedRoots)
    IN /\ ~valOut.threw
       /\ valOut.valid <=> accepted
       /\ ~valOut.valid => valOut.error.text # ""

\* the bag id of the last invoke is a string of 64 hexadecimal digits
SentIdIsValid ==
  /\ TypeOf(hBagId) = "string"
  /\ Len(hBagId.chars) = 64
  /\ \A i \in 1..64 : hBagId.chars[i] \in HexChars

\* C29: a storage handler has called the storage layer only with a bag id
\* that is valid and, for STORAGE_ADD_BAG, only after storageLimiter.check()
\* returned true; the function it called is the one of its channel; when it
\* has not called the storage layer it has replied with an error.
C29_HandlersValidateFirst ==
  hChannel # "none" =>
    /\ hReached # "none" =>
         /\ SentIdIsValid
         /\ hChannel = "STORAGE_ADD_BAG" => hCheck = "true"
         /\ hReached = StorageCalls[hChannel]
    /\ hReached = "none" => hResult # ""

\* STORAGE_ADD_BAG has reached addBag with a valid id
C29_Witness ==
  /\ hChannel = "STORAGE_ADD_BAG"
  /\ hReached = "addBag"
  /\ hCheck = "true"
  /\ hBagId = Str(Run("a", 64))

\* the calls accepted from time a to time b since the last reset()
RECURSIVE AcceptedWithin(_, _, _)
AcceptedWithin(accepted, a, b) ==
  IF a > b THEN 0 ELSE accepted[a] + AcceptedWithin(accepted, a + 1, b)

\* C30: the history of a RateLimiter(n, w) never holds more than n
\* timestamps; a check() keeps exactly the timestamps less than w ms old,
\* each for itself, is accepted when fewer than n of them are left and then
\* records the time, and is rejected otherwise and records nothing; among
\* the calls since the last reset() at most n are accepted in any interval
\* shorter than w; reset() empties the history, and a check() on an empty
\* history is accepted.
C30_SlidingWindow ==
  [][ /\ Len(rlCalls') <= rlMaxCalls
      /\ \A a, b \in 0..MaxClock :
           (a <= b /\ b - a < rlWindowMs) =>
             AcceptedWithin(rlAccepted', a, b) <= rlMaxCalls
      /\ op' = "check" =>
           LET kept == SelectSeq(rlCalls, LAMBDA t : rlNow - t < rlWindowMs) IN
           /\ ret' = "true" <=> Len(kept) < rlMaxCalls
           /\ ret' = "true" => rlCalls' = Append(kept, rlNow)
           /\ ret' = "false" => rlCalls' = kept
           /\ rlCalls = <<>> => ret' = "true"
      /\ op' = "reset" => rlCalls' = <<>> ]_vars

\* of two calls accepted at times 0 and 1 by a RateLimiter(2, 2), the first
\* has expired at time 2 and the second still counts
C30_Witness ==
  /\ rlMaxCalls = 2
  /\ rlWindowMs = 2
  /\ op = "check"
  /\ ret = "true"
  /\ rlAccepted[0] = 1
  /\ rlCalls = <<1, 2>>

\* the outcomes checkSync() resolves false for: a 502 response, and a
\* request that failed or timed out
NotYetSynced == {NotSyncedStatus, 0}

\* C31: while the status is 'syncing', a probe answered with 502, or failed,
\* or timed out leaves the status 'syncing', emits nothing and leaves the
\* sync-check interval running, so the next tick issues the probe again.
C31_FailedProbeRetried ==
  [][ \A outcome \in NotYetSynced :
        (pStatus = "syncing" /\ ProxyProbeDone(outcome)) =>
          /\ pStatus' = "syncing"
          /\ emitted' = <<>>
          /\ pSyncInterval' = pSyncInterval
          /\ pTimers' = pTimers
          /\ pProbes' < MaxInFlight ]_vars

\* a probe has just failed while syncing and the interval is still running
C31_Witness ==
  /\ mgr = "proxy"
  /\ op = "probe"
  /\ pStatus = "syncing"
  /\ emitted = <<>>
  /\ pSyncInterval \in pTimers

\* C32: a change of the network settings made while the proxy holds a process
\* restarts the proxy exactly when the live network settings then differ from
\* those of the last start().
C32_RestartIffDiverged ==
  [][ (op' = "settings" /\ ncProcess) =>
        (ret' = "restarting" <=> ncLive' # ncStarted) ]_vars

\* the document holds a numeric or boolean field of a type other than the
\* declared one
WrongTypedField(doc) ==
  \E c \in DOMAIN doc \cap AllCategories :
    /\ doc[c] # NotObject
    /\ \E f \in DOMAIN DeclaredTypes[c] : PresentNot(doc, c, f, DeclaredTypes[c][f])

\* the document holds categories without fields, or nothing
OmitsFields(doc) == \A c \in DOMAIN doc : doc[c] = Empty

\* C33: isValidSettingsObject rejects every document in which a numeric or
\* boolean field of the settings is present with a type other than the
\* declared one, and accepts a document that only leaves fields out.
C33_WrongTypeRejected ==
  fvOut # "none" =>
    /\ WrongTypedField(fvDoc) => fvOut = "false"
    /\ OmitsFields(fvDoc) => fvOut = "true"

\* what every call of the client other than ping() does: one request, and
\* an error that holds the status and the body when the status is not a
\* success
OneRequestAndHttpError ==
  /\ hcRequests = 1
  /\ (hcCall # "ping" /\ hcResponse.kind = "response" /\ ~Ok(hcResponse)) =>
       hcOut = HttpError(hcResponse.status, hcResponse.body)
  /\ hcCall = "ping" => hcOut \in {Value_("true"), Value_("false")}

\* C34 as claimed: ping() returns true exactly when the list request
\* completes with a success status and a body that is empty or parses.
C34_PingTrueIffParseable ==
  hcOut # NoOutcome =>
    /\ OneRequestAndHttpError
    /\ hcCall = "ping" =>
         (hcOut = Value_("true") <=>
            /\ hcResponse.kind = "response"
            /\ Ok(hcResponse)
            /\ \/ hcResponse.body = ""
               \/ JsonParse(hcResponse.body) # "SyntaxError")

\* C34: ping() returns true exactly when the list request completes with a
\* success status and a body that is empty or parses to a value other than
\* null, returns false otherwise and never throws; every other call issues
\* one request and, on a status that is not a success, throws an error that
\* holds the status and the body.
C34_PingTrueIffListed ==
  hcOut # NoOutcome =>
    /\ OneRequestAndHttpError
    /\ hcCall = "ping" =>
         (hcOut = Value_("true") <=>
            /\ hcResponse.kind = "response"
            /\ Ok(hcResponse)
            /\ \/ hcResponse.body = ""
               \/ JsonParse(hcResponse.body) \notin {"SyntaxError", "null"})

\* ping() has returned false on a 200 response whose body is the text null
C34_Witness ==
  /\ hcCall = "ping"
  /\ hcResponse = Response(200, "null")
  /\ hcOut = Value_("false")

\* C35: every change of storage.downloadPath, and of the storage manager's
\* storage path, made through the control surface puts there a path that
\* isValidDownloadPath accepts.
C35_OnlyValidPathsPersisted ==
  [][ /\ dpPersisted' # dpPersisted => IsValidDownloadPath(dpPersisted').valid
      /\ dpStoragePath' # dpStoragePath =>
           IsValidDownloadPath(dpStoragePath').valid ]_vars

\* C36: whenever the storage manager reports running = true it holds a child
\* process and an HTTP client; a stop() or an exit during the readiness wait
\* of start() never leaves running = true behind.
C36_RunningImpliesHeld ==
  mgr = "storage" => (sIsRunning => (sProcess # Null /\ sClient # Null))

\* C37: the only recurring timer of a manager that runs is the one its
\* interval field names, and none runs while the manager holds no process.
C37_OneTimerHeld ==
  /\ mgr = "proxy" =>
       /\ pTimers \subseteq {pSyncInterval}
       /\ pProcess = Null => pTimers = {}
  /\ mgr = "storage" =>
       /\ sTimers \subseteq {sPollInterval}
       /\ sProcess = Null => sTimers = {}

\* C38: when a start() that spawned a child rejects because readiness was not
\* reached, the manager is back in its stopped state: no process handle and
\* no storage client are held and the proxy status is 'stopped'.
C38_FailedStartReleases ==
  /\ (mgr = "proxy" /\ op = "timeout" /\ ret = ProxyTimeoutError) =>
       (pProcess = Null /\ pStatus = "stopped")
  /\ (mgr = "storage" /\ op = "sleep" /\ ret = StorageNotReadyError) =>
       (sProcess = Null /\ sClient = Null /\ ~sIsRunning)

\* C39: when a PROXY_DISCONNECT was handled while a connect path was in
\* progress and no connect path has begun since, then once every handler has
\* finished neither daemon is running.
C39_DisconnectWins ==
  (cCut /\ \A h \in Calls : ~InProgress(cCall[h])) =>
    (cProcess = Null /\ cStorProcess = Null /\ ~cStorRunning)

\* C40: the relays getStatus() reports are empty whenever no process is held
\* and at the moment a new child has been spawned.
C40_RelaysOfHeldChild ==
  /\ crProcess = Null => crRelays = NoRelays
  /\ (mgr = "circuit" /\ op = "start" /\ ret = "pending") => crRelays = NoRelays

====
